---- MODULE Spec2Model ----
(***************************************************************************)
(* Model of the vsphere-virtualmachine data source                        *)
(* (datasource/virtualmachine): Configure, then Execute, which fetches    *)
(* the virtual machines matching a glob and narrows the list through the  *)
(* chain of filters filterByNameRegex, filterByTemplate, filterByHost,    *)
(* filterByTags and filterByLatest.                                       *)
(*                                                                         *)
(* Strings that the code inspects (names, globs, regular expressions, the *)
(* connection fields) are sequences of one-character strings.  A virtual  *)
(* machine handle (a pointer to object.VirtualMachine) is an index into   *)
(* the inventory; 0 is the nil pointer.  Every remote call is recorded in *)
(* the log `calls`,                                                       *)
(* every filter that Execute invokes in the log `stages`.  A nil pointer  *)
(* dereference ends the run with the outcome "panic".                     *)
(***************************************************************************)
EXTENDS Integers, Sequences, FiniteSets, TLC

VARIABLES config, inv, pc, filteredVms, calls, stages, outcome, raws, first

\* raws is what is handed to Configure, config is d.config; first
\* remembers the outcome of an earlier run of the same data source.
vars == <<config, inv, pc, filteredVms, calls, stages, outcome, raws, first>>

\* Largest number of virtual machines in the inventory.
NumVMs == 2

NilVM == 0

\* CreateDate of a machine whose config carries no creation date (nil pointer).
Absent == -1

\* The zero value of time.Time, the seed of latestTimestamp.
ZeroTime == 0

NoErr == <<>>

\* Marker for "no candidate list" (a nil slice returned beside an error).
NoList == <<-1>>

----------------------------------------------------------------------------
(* Small helpers over sequences *)

Range(s) == {s[i] : i \in DOMAIN s}

\* s is a subsequence of t (order preserved, no element used twice)
RECURSIVE IsSubseq(_, _)
IsSubseq(s, t) ==
    IF s = <<>> THEN TRUE
    ELSE IF t = <<>> THEN FALSE
    ELSE IF Head(s) = Head(t) THEN IsSubseq(Tail(s), Tail(t))
    ELSE IsSubseq(s, Tail(t))

----------------------------------------------------------------------------
(* The inventory service (govmomi finder, property collector, tag manager) *)

\* tags.Manager.GetCategory: category ID -> category name
CategoryName(id) ==
    CASE id = "urn:c1" -> "team"
      [] id = "urn:c2" -> "tier"
      [] OTHER -> "sla"

VMName(vm) == inv[vm].name

\* The printable ASCII characters in the order of their codes, 32 to 126
\* ("GRAVE" stands for the grave accent, code 96)
Chars ==
    <<" ", "!", "\"", "#", "$", "%", "&", "'", "(", ")", "*", "+", ",", "-", ".", "/",
      "0", "1", "2", "3", "4", "5", "6", "7", "8", "9", ":", ";", "<", "=", ">", "?",
      "@", "A", "B", "C", "D", "E", "F", "G", "H", "I", "J", "K", "L", "M", "N", "O",
      "P", "Q", "R", "S", "T", "U", "V", "W", "X", "Y", "Z", "[", "\\", "]", "^", "_",
      "GRAVE", "a", "b", "c", "d", "e", "f", "g", "h", "i", "j", "k", "l", "m", "n", "o",
      "p", "q", "r", "s", "t", "u", "v", "w", "x", "y", "z", "{", "|", "}", "~">>

\* The code of a printable ASCII character
Ord(c) == 31 + (CHOOSE i \in DOMAIN Chars : Chars[i] = c)

\* lo <= c <= hi on the codes of the characters
InRange(c, lo, hi) == IF lo = hi THEN c = lo ELSE Ord(lo) <= Ord(c) /\ Ord(c) <= Ord(hi)

Drop(s, n) == SubSeq(s, n + 1, Len(s))

\* path.getEsc: one character of a class, possibly escaped; the class must
\* go on after it.
GlobGetEsc(chunk) ==
    IF chunk = <<>> \/ chunk[1] \in {"-", "]"} THEN [ok |-> FALSE, c |-> "", rest |-> <<>>]
    ELSE LET esc == chunk[1] = "\\"
             body == IF esc THEN Tail(chunk) ELSE chunk
         IN  IF Len(body) < 2 THEN [ok |-> FALSE, c |-> "", rest |-> <<>>]
             ELSE [ok |-> TRUE, c |-> body[1], rest |-> Tail(body)]

\* The ranges of a class, from after '[' and '^' up to the closing ']'
RECURSIVE GlobRanges(_, _)
GlobRanges(chunk, ranges) ==
    IF chunk # <<>> /\ chunk[1] = "]" /\ ranges # <<>>
    THEN [ok |-> TRUE, ranges |-> ranges, rest |-> Tail(chunk)]
    ELSE LET lo == GlobGetEsc(chunk)
         IN  IF ~lo.ok THEN [ok |-> FALSE, ranges |-> <<>>, rest |-> <<>>]
             ELSE IF lo.rest[1] = "-"
             THEN LET hi == GlobGetEsc(Tail(lo.rest))
                  IN  IF ~hi.ok THEN [ok |-> FALSE, ranges |-> <<>>, rest |-> <<>>]
                      ELSE GlobRanges(hi.rest, Append(ranges, <<lo.c, hi.c>>))
             ELSE GlobRanges(lo.rest, Append(ranges, <<lo.c, lo.c>>))

GlobToken(kind, c, neg, ranges) == [kind |-> kind, c |-> c, neg |-> neg, ranges |-> ranges]

\* The pattern as path.Match reads it: '*', '?', '[' class ']', '\' and a
\* character, or a character.  ok = FALSE is path.ErrBadPattern.
RECURSIVE GlobParse(_, _)
GlobParse(pat, tokens) ==
    IF pat = <<>> THEN [ok |-> TRUE, tokens |-> tokens]
    ELSE IF pat[1] = "*"
    THEN GlobParse(Tail(pat), Append(tokens, GlobToken("star", "", FALSE, <<>>)))
    ELSE IF pat[1] = "?"
    THEN GlobParse(Tail(pat), Append(tokens, GlobToken("any", "", FALSE, <<>>)))
    ELSE IF pat[1] = "\\"
    THEN IF Len(pat) < 2 THEN [ok |-> FALSE, tokens |-> <<>>]
         ELSE GlobParse(Drop(pat, 2), Append(tokens, GlobToken("lit", pat[2], FALSE, <<>>)))
    ELSE IF pat[1] = "["
    THEN LET neg == Len(pat) > 1 /\ pat[2] = "^"
             r == GlobRanges(Drop(pat, IF neg THEN 2 ELSE 1), <<>>)
         IN  IF ~r.ok THEN [ok |-> FALSE, tokens |-> <<>>]
             ELSE GlobParse(r.rest, Append(tokens, GlobToken("class", "", neg, r.ranges)))
    ELSE GlobParse(Tail(pat), Append(tokens, GlobToken("lit", pat[1], FALSE, <<>>)))

\* One character against a token other than '*'
GlobAccepts(token, c) ==
    CASE token.kind = "any" -> c # "/"
      [] token.kind = "lit" -> c = token.c
      [] OTHER ->
            (\E k \in DOMAIN token.ranges :
                InRange(c, token.ranges[k][1], token.ranges[k][2])) # token.neg

RECURSIVE GlobTokensMatch(_, _)
GlobTokensMatch(tokens, s) ==
    IF tokens = <<>> THEN s = <<>>
    ELSE IF tokens[1].kind = "star"
    THEN \E k \in 0..Len(s) :
            /\ \A i \in 1..k : s[i] # "/"
            /\ GlobTokensMatch(Tail(tokens), Drop(s, k))
    ELSE s # <<>> /\ GlobAccepts(tokens[1], s[1]) /\ GlobTokensMatch(Tail(tokens), Tail(s))

\* path.Match reports ErrBadPattern for a malformed pattern
GlobBad(pat) == ~GlobParse(pat, <<>>).ok

\* path.Match as the finder applies it to the name of a machine.  The
\* inventory of the model is one folder and the pattern one path element:
\* a name with '/' (a folder path for the finder) or with ':' (a managed
\* object reference) is outside the model.
GlobMatch(pat, s) ==
    LET p == GlobParse(pat, <<>>)
    IN  p.ok /\ GlobTokensMatch(p.tokens, s)

\* Finder.VirtualMachineList: the machines whose name matches the glob, in
\* inventory order; the finder reports NotFound when nothing matches.
GlobList(name) == SelectSeq([i \in 1..Len(inv) |-> i], LAMBDA vm : GlobMatch(name, VMName(vm)))

\* Finder.HostSystem succeeds for the hosts of the inventory only.
Hosts == {"h1", "h2"}

\* mo.HostSystem.Vm retrieved by name: the names of the machines on the host.
HostVmNames(host) ==
    LET on == SelectSeq([i \in 1..Len(inv) |-> i], LAMBDA vm : inv[vm].host = host)
    IN  [i \in 1..Len(on) |-> VMName(on[i])]

----------------------------------------------------------------------------
(* regexp.Compile and Regexp.MatchString (regexp/syntax with the Perl      *)
(* flags).  A compiled expression is a tree of nodes; what Compile returns *)
(* is [ok, node], with ok = FALSE for the nil *Regexp beside an error.     *)
(* Characters are their codes.  Patterns and subjects are printable ASCII; *)
(* of the Unicode tables of \p only the part below code 128 is kept, and   *)
(* only the scripts of ReScripts are known by name.                        *)

\* The code of each printable ASCII character, computed once
OrdOf == [c \in {Chars[i] : i \in DOMAIN Chars} |-> Ord(c)]

ReMaxRune == 1114111

ReDigits == {"0", "1", "2", "3", "4", "5", "6", "7", "8", "9"}

\* syntax.isalnum
ReIsAlnum(c) ==
    LET n == OrdOf[c]
    IN  (48 <= n /\ n <= 57) \/ (65 <= n /\ n <= 90) \/ (97 <= n /\ n <= 122)

\* syntax.unhex: the value of a hexadecimal digit, -1 for any other character
ReUnhex(c) ==
    LET n == OrdOf[c]
    IN  IF 48 <= n /\ n <= 57 THEN n - 48
        ELSE IF 97 <= n /\ n <= 102 THEN n - 97 + 10
        ELSE IF 65 <= n /\ n <= 70 THEN n - 65 + 10
        ELSE -1

\* One member of a character class: ranges of codes, possibly negated
ReItem(ranges, neg) == [ranges |-> ranges, neg |-> neg]

ReOne(n) == ReItem(<<<<n, n>>>>, FALSE)

ReWordRanges == <<<<48, 57>>, <<65, 90>>, <<95, 95>>, <<97, 122>>>>

ReSpaceRanges == <<<<9, 10>>, <<12, 13>>, <<32, 32>>>>

\* syntax.perlGroup: \d \D \s \S \w \W (ok = FALSE: no such class)
RePerlGroup(c) ==
    CASE c = "d" -> [ok |-> TRUE, item |-> ReItem(<<<<48, 57>>>>, FALSE)]
      [] c = "D" -> [ok |-> TRUE, item |-> ReItem(<<<<48, 57>>>>, TRUE)]
      [] c = "s" -> [ok |-> TRUE, item |-> ReItem(ReSpaceRanges, FALSE)]
      [] c = "S" -> [ok |-> TRUE, item |-> ReItem(ReSpaceRanges, TRUE)]
      [] c = "w" -> [ok |-> TRUE, item |-> ReItem(ReWordRanges, FALSE)]
      [] c = "W" -> [ok |-> TRUE, item |-> ReItem(ReWordRanges, TRUE)]
      [] OTHER -> [ok |-> FALSE, item |-> ReItem(<<>>, FALSE)]

\* syntax.posixGroup: the ranges of [:name:]; <<>> stands for an unknown name
RePosixRanges(name) ==
    CASE name = <<"a", "l", "n", "u", "m">> -> <<<<48, 57>>, <<65, 90>>, <<97, 122>>>>
      [] name = <<"a", "l", "p", "h", "a">> -> <<<<65, 90>>, <<97, 122>>>>
      [] name = <<"a", "s", "c", "i", "i">> -> <<<<0, 127>>>>
      [] name = <<"b", "l", "a", "n", "k">> -> <<<<9, 9>>, <<32, 32>>>>
      [] name = <<"c", "n", "t", "r", "l">> -> <<<<0, 31>>, <<127, 127>>>>
      [] name = <<"d", "i", "g", "i", "t">> -> <<<<48, 57>>>>
      [] name = <<"g", "r", "a", "p", "h">> -> <<<<33, 126>>>>
      [] name = <<"l", "o", "w", "e", "r">> -> <<<<97, 122>>>>
      [] name = <<"p", "r", "i", "n", "t">> -> <<<<32, 126>>>>
      [] name = <<"p", "u", "n", "c", "t">> -> <<<<33, 47>>, <<58, 64>>, <<91, 96>>, <<123, 126>>>>
      [] name = <<"s", "p", "a", "c", "e">> -> <<<<9, 13>>, <<32, 32>>>>
      [] name = <<"u", "p", "p", "e", "r">> -> <<<<65, 90>>>>
      [] name = <<"w", "o", "r", "d">> -> ReWordRanges
      [] name = <<"x", "d", "i", "g", "i", "t">> -> <<<<48, 57>>, <<65, 70>>, <<97, 102>>>>
      [] OTHER -> <<>>

\* The position of the first occurrence of the characters `what` in t, 0 if none
RECURSIVE ReIndexFrom(_, _, _)
ReIndexFrom(t, what, i) ==
    IF i + Len(what) - 1 > Len(t) THEN 0
    ELSE IF SubSeq(t, i, i + Len(what) - 1) = what THEN i
    ELSE ReIndexFrom(t, what, i + 1)

ReIndex(t, what) == ReIndexFrom(t, what, 1)

ReFail == [ok |-> FALSE, found |-> FALSE, item |-> ReItem(<<>>, FALSE), rest |-> <<>>]

\* parser.parseNamedClass, on a text that begins with "[:".  found = FALSE:
\* no ":]" follows, and the '[' is an ordinary character of the class.
ReParseNamedClass(t) ==
    LET i == ReIndex(Drop(t, 2), <<":", "]">>)
        name == SubSeq(t, 3, i + 1)
        neg == name # <<>> /\ name[1] = "^"
        ranges == RePosixRanges(IF neg THEN Tail(name) ELSE name)
    IN  IF i = 0 THEN [ReFail EXCEPT !.ok = TRUE]
        ELSE IF ranges = <<>> THEN ReFail
        ELSE [ok |-> TRUE, found |-> TRUE, item |-> ReItem(ranges, neg), rest |-> Drop(t, i + 3)]

\* The characters of a name as one string
RECURSIVE ReText(_)
ReText(name) == IF name = <<>> THEN "" ELSE name[1] \o ReText(Tail(name))

\* The scripts of unicode.Scripts (Unicode 15) that have no character below
\* code 128: all of them but Latin and Common
ReScripts ==
    {"Adlam", "Ahom", "Anatolian_Hieroglyphs", "Arabic", "Armenian",
     "Avestan", "Balinese", "Bamum", "Bassa_Vah", "Batak", "Bengali",
     "Bhaiksuki", "Bopomofo", "Brahmi", "Braille", "Buginese", "Buhid",
     "Canadian_Aboriginal", "Carian", "Caucasian_Albanian", "Chakma", "Cham",
     "Cherokee", "Chorasmian", "Coptic", "Cuneiform", "Cypriot",
     "Cypro_Minoan", "Cyrillic", "Deseret", "Devanagari", "Dives_Akuru",
     "Dogra", "Duployan", "Egyptian_Hieroglyphs", "Elbasan", "Elymaic",
     "Ethiopic", "Georgian", "Glagolitic", "Gothic", "Grantha", "Greek",
     "Gujarati", "Gunjala_Gondi", "Gurmukhi", "Han", "Hangul",
     "Hanifi_Rohingya", "Hanunoo", "Hatran", "Hebrew", "Hiragana",
     "Imperial_Aramaic", "Inherited", "Inscriptional_Pahlavi",
     "Inscriptional_Parthian", "Javanese", "Kaithi", "Kannada", "Katakana",
     "Kawi", "Kayah_Li", "Kharoshthi", "Khitan_Small_Script", "Khmer",
     "Khojki", "Khudawadi", "Lao", "Lepcha", "Limbu", "Linear_A", "Linear_B",
     "Lisu", "Lycian", "Lydian", "Mahajani", "Makasar", "Malayalam",
     "Mandaic", "Manichaean", "Marchen", "Masaram_Gondi", "Medefaidrin",
     "Meetei_Mayek", "Mende_Kikakui", "Meroitic_Cursive",
     "Meroitic_Hieroglyphs", "Miao", "Modi", "Mongolian", "Mro", "Multani",
     "Myanmar", "Nabataean", "Nag_Mundari", "Nandinagari", "New_Tai_Lue",
     "Newa", "Nko", "Nushu", "Nyiakeng_Puachue_Hmong", "Ogham", "Ol_Chiki",
     "Old_Hungarian", "Old_Italic", "Old_North_Arabian", "Old_Permic",
     "Old_Persian", "Old_Sogdian", "Old_South_Arabian", "Old_Turkic",
     "Old_Uyghur", "Oriya", "Osage", "Osmanya", "Pahawh_Hmong", "Palmyrene",
     "Pau_Cin_Hau", "Phags_Pa", "Phoenician", "Psalter_Pahlavi", "Rejang",
     "Runic", "Samaritan", "Saurashtra", "Sharada", "Shavian", "Siddham",
     "SignWriting", "Sinhala", "Sogdian", "Sora_Sompeng", "Soyombo",
     "Sundanese", "Syloti_Nagri", "Syriac", "Tagalog", "Tagbanwa", "Tai_Le",
     "Tai_Tham", "Tai_Viet", "Takri", "Tamil", "Tangsa", "Tangut", "Telugu",
     "Thaana", "Thai", "Tibetan", "Tifinagh", "Tirhuta", "Toto", "Ugaritic",
     "Vai", "Vithkuqi", "Wancho", "Warang_Citi", "Yezidi", "Yi",
     "Zanabazar_Square"}

\* unicode.Categories without a character below code 128
ReEmptyCategories ==
    {<<"C", "f">>, <<"C", "o">>, <<"C", "s">>, <<"L", "m">>, <<"L", "o">>, <<"L", "t">>,
     <<"M">>, <<"M", "c">>, <<"M", "e">>, <<"M", "n">>, <<"N", "l">>, <<"N", "o">>,
     <<"P", "f">>, <<"P", "i">>, <<"S", "o">>, <<"Z", "l">>, <<"Z", "p">>}

\* syntax.unicodeTable, cut at code 128: "Any", a category or a script
ReUnicodeTable(name) ==
    LET T(r) == [ok |-> TRUE, ranges |-> r]
    IN  CASE name = <<"A", "n", "y">> -> T(<<<<0, ReMaxRune>>>>)
          [] name \in {<<"C">>, <<"C", "c">>} -> T(<<<<0, 31>>, <<127, 127>>>>)
          [] name = <<"L">> -> T(<<<<65, 90>>, <<97, 122>>>>)
          [] name = <<"L", "l">> -> T(<<<<97, 122>>>>)
          [] name = <<"L", "u">> -> T(<<<<65, 90>>>>)
          [] name \in {<<"N">>, <<"N", "d">>} -> T(<<<<48, 57>>>>)
          [] name = <<"P">> -> T(<<<<33, 35>>, <<37, 42>>, <<44, 47>>, <<58, 59>>, <<63, 64>>,
                                  <<91, 93>>, <<95, 95>>, <<123, 123>>, <<125, 125>>>>)
          [] name = <<"P", "c">> -> T(<<<<95, 95>>>>)
          [] name = <<"P", "d">> -> T(<<<<45, 45>>>>)
          [] name = <<"P", "e">> -> T(<<<<41, 41>>, <<93, 93>>, <<125, 125>>>>)
          [] name = <<"P", "o">> -> T(<<<<33, 35>>, <<37, 39>>, <<42, 42>>, <<44, 44>>, <<46, 47>>,
                                       <<58, 59>>, <<63, 64>>, <<92, 92>>>>)
          [] name = <<"P", "s">> -> T(<<<<40, 40>>, <<91, 91>>, <<123, 123>>>>)
          [] name = <<"S">> -> T(<<<<36, 36>>, <<43, 43>>, <<60, 62>>, <<94, 94>>, <<96, 96>>,
                                  <<124, 124>>, <<126, 126>>>>)
          [] name = <<"S", "c">> -> T(<<<<36, 36>>>>)
          [] name = <<"S", "k">> -> T(<<<<94, 94>>, <<96, 96>>>>)
          [] name = <<"S", "m">> -> T(<<<<43, 43>>, <<60, 62>>, <<124, 124>>, <<126, 126>>>>)
          [] name \in {<<"Z">>, <<"Z", "s">>} -> T(<<<<32, 32>>>>)
          [] name = <<"L", "a", "t", "i", "n">> -> T(<<<<65, 90>>, <<97, 122>>>>)
          [] name = <<"C", "o", "m", "m", "o", "n">> ->
                T(<<<<0, 64>>, <<91, 96>>, <<123, 127>>>>)
          [] name \in ReEmptyCategories \/ ReText(name) \in ReScripts -> T(<<>>)
          [] OTHER -> [ok |-> FALSE, ranges |-> <<>>]

\* parser.parseUnicodeClass, on a text that begins with \p or \P
ReParseUnicodeClass(t) ==
    LET braces == Len(t) >= 3 /\ t[3] = "{"
        end == ReIndex(t, <<"}">>)
        raw == IF braces THEN SubSeq(t, 4, end - 1) ELSE IF Len(t) >= 3 THEN <<t[3]>> ELSE <<>>
        rest == IF braces THEN Drop(t, end) ELSE Drop(t, 3)
        caret == raw # <<>> /\ raw[1] = "^"
        tab == ReUnicodeTable(IF caret THEN Tail(raw) ELSE raw)
    IN  IF (braces /\ end = 0) \/ ~tab.ok THEN ReFail
        ELSE [ok |-> TRUE, found |-> TRUE, rest |-> rest,
              item |-> ReItem(tab.ranges, (t[2] = "P") # caret)]

\* A number of at most three octal digits at the front of t, after the
\* first digit c: [value, rest]
RECURSIVE ReOctal(_, _, _)
ReOctal(r, t, more) ==
    IF more = 0 \/ t = <<>> \/ t[1] \notin {"0", "1", "2", "3", "4", "5", "6", "7"}
    THEN [value |-> r, rest |-> t]
    ELSE ReOctal(r * 8 + ReUnhex(t[1]), Tail(t), more - 1)

\* The hexadecimal digits of \x{...}, t after the '{': [ok, value, rest]
RECURSIVE ReHexBraces(_, _, _)
ReHexBraces(r, t, nhex) ==
    IF t = <<>> THEN [ok |-> FALSE, value |-> 0, rest |-> <<>>]
    ELSE IF t[1] = "}" THEN [ok |-> nhex > 0, value |-> r, rest |-> Tail(t)]
    ELSE IF ReUnhex(t[1]) < 0 \/ r * 16 + ReUnhex(t[1]) > ReMaxRune
    THEN [ok |-> FALSE, value |-> 0, rest |-> <<>>]
    ELSE ReHexBraces(r * 16 + ReUnhex(t[1]), Tail(t), nhex + 1)

\* parser.parseEscape, on a text that begins with '\': [ok, value, rest]
ReParseEscape(t) ==
    LET Bad == [ok |-> FALSE, value |-> 0, rest |-> <<>>]
        Is(n) == [ok |-> TRUE, value |-> n, rest |-> Drop(t, 2)]
        c == t[2]
    IN  IF Len(t) < 2 THEN Bad
        ELSE IF c \in {"1", "2", "3", "4", "5", "6", "7"}
                /\ (Len(t) < 3 \/ t[3] \notin {"0", "1", "2", "3", "4", "5", "6", "7"})
        THEN Bad
        ELSE IF c \in {"0", "1", "2", "3", "4", "5", "6", "7"}
        THEN LET o == ReOctal(ReUnhex(c), Drop(t, 2), 2)
             IN  [ok |-> TRUE, value |-> o.value, rest |-> o.rest]
        ELSE IF c = "x"
        THEN IF Len(t) < 3 THEN Bad
             ELSE IF t[3] = "{" THEN ReHexBraces(0, Drop(t, 3), 0)
             ELSE IF Len(t) < 4 \/ ReUnhex(t[3]) < 0 \/ ReUnhex(t[4]) < 0 THEN Bad
             ELSE [ok |-> TRUE, value |-> ReUnhex(t[3]) * 16 + ReUnhex(t[4]), rest |-> Drop(t, 4)]
        ELSE IF c = "a" THEN Is(7)
        ELSE IF c = "f" THEN Is(12)
        ELSE IF c = "n" THEN Is(10)
        ELSE IF c = "r" THEN Is(13)
        ELSE IF c = "t" THEN Is(9)
        ELSE IF c = "v" THEN Is(11)
        ELSE IF ~ReIsAlnum(c) THEN Is(OrdOf[c])
        ELSE Bad

\* A node of the parsed expression (syntax.Regexp).  op is one of "class",
\* "bot", "eot", "bol", "eol", "wb", "nwb", "cat", "alt", "cap", "star",
\* "plus", "quest", "repeat".
Re(op) ==
    [op |-> op, items |-> <<>>, neg |-> FALSE, fold |-> FALSE, subs |-> <<>>,
     min |-> 0, max |-> 0]

ReClass(items, neg, fold) == [Re("class") EXCEPT !.items = items, !.neg = neg, !.fold = fold]

\* parser.literal
ReLit(n, fold) == ReClass(<<ReOne(n)>>, FALSE, fold)

ReGroup(op, subs) == [Re(op) EXCEPT !.subs = subs]

ReRepeat(op, sub, min, max) == [Re(op) EXCEPT !.subs = <<sub>>, !.min = min, !.max = max]

\* parser.parseClassChar: [ok, value, rest]
ReParseClassChar(t) ==
    IF t = <<>> THEN [ok |-> FALSE, value |-> 0, rest |-> <<>>]
    ELSE IF t[1] = "\\" THEN ReParseEscape(t)
    ELSE [ok |-> TRUE, value |-> OrdOf[t[1]], rest |-> Tail(t)]

\* The range lo-hi once both ends are read; hi < lo is refused
ReClassRangeOf(lo, hi) ==
    IF ~lo.ok \/ ~hi.ok \/ hi.value < lo.value THEN ReFail
    ELSE [ok |-> TRUE, found |-> TRUE, rest |-> hi.rest,
          item |-> ReItem(<<<<lo.value, hi.value>>>>, FALSE)]

\* After the character lo: "-" and another character make a range, but
\* "-]" does not
ReClassRangeFrom(lo) ==
    ReClassRangeOf(lo, IF Len(lo.rest) >= 2 /\ lo.rest[1] = "-" /\ lo.rest[2] # "]"
                       THEN ReParseClassChar(Tail(lo.rest)) ELSE lo)

\* A single character or a range lo-hi of a class: [ok, found, item, rest]
ReParseClassRange(t) == ReClassRangeFrom(ReParseClassChar(t))

\* [:name:] at the front of a class member, if there is one
ReClassNamed(t) ==
    IF Len(t) > 2 /\ t[1] = "[" /\ t[2] = ":"
    THEN ReParseNamedClass(t) ELSE [ReFail EXCEPT !.ok = TRUE]

\* The member after the check for [:name:]: \p, a Perl class, a character
\* or a range
ReClassItemAfter(named, t) ==
    IF ~named.ok \/ named.found THEN named
    ELSE IF Len(t) >= 2 /\ t[1] = "\\" /\ t[2] \in {"p", "P"} THEN ReParseUnicodeClass(t)
    ELSE IF Len(t) >= 2 /\ t[1] = "\\" /\ RePerlGroup(t[2]).ok
    THEN [ok |-> TRUE, found |-> TRUE, item |-> RePerlGroup(t[2]).item, rest |-> Drop(t, 2)]
    ELSE ReParseClassRange(t)

\* The next member of a class, as the loop of parser.parseClass reads it
ReParseClassItem(t) == ReClassItemAfter(ReClassNamed(t), t)

\* The loop of parser.parseClass: members up to the closing ']', which is an
\* ordinary character when it comes first.
RECURSIVE ReParseClassLoop(_, _, _)

ReClassLoopNext(it, items) ==
    IF ~it.ok THEN [ok |-> FALSE, items |-> <<>>, rest |-> <<>>]
    ELSE ReParseClassLoop(it.rest, Append(items, it.item), FALSE)

ReParseClassLoop(t, items, atFirst) ==
    IF t # <<>> /\ t[1] = "]" /\ ~atFirst
    THEN [ok |-> TRUE, items |-> items, rest |-> Tail(t)]
    ELSE ReClassLoopNext(ReParseClassItem(t), items)

ReClassOperand(loop, neg, fold) ==
    [ok |-> loop.ok, nodes |-> <<ReClass(loop.items, neg, fold)>>, rest |-> loop.rest]

\* parser.parseClass, on a text that begins with '[': [ok, nodes, rest]
ReParseClass(t, fold) ==
    IF Len(t) >= 2 /\ t[2] = "^"
    THEN ReClassOperand(ReParseClassLoop(Drop(t, 2), <<>>, TRUE), TRUE, fold)
    ELSE ReClassOperand(ReParseClassLoop(Drop(t, 1), <<>>, TRUE), FALSE, fold)

\* The flags of the parser that change what an expression matches:
\* i (FoldCase), m (OneLine cleared), s (DotNL).  U only changes which
\* match is preferred.
RePerl == [i |-> FALSE, m |-> FALSE, s |-> FALSE]

\* The literals of \Q...\E
ReQuoted(lit, fold) == [k \in 1..Len(lit) |-> ReLit(OrdOf[lit[k]], fold)]

\* The operand of \p, \P or of a class in brackets with one member
ReItemOperand(u, fold) ==
    [ok |-> u.ok, nodes |-> <<ReClass(<<u.item>>, FALSE, fold)>>, rest |-> u.rest]

\* The operand of an escaped character
ReEscapeOperand(e, fold) == [ok |-> e.ok, nodes |-> <<ReLit(e.value, fold)>>, rest |-> e.rest]

\* \Q...\E, body being the text after \Q and e the position of \E in it
ReQuotedOperand(body, e, fold) ==
    IF e = 0 THEN [ok |-> TRUE, nodes |-> ReQuoted(body, fold), rest |-> <<>>]
    ELSE [ok |-> TRUE, nodes |-> ReQuoted(SubSeq(body, 1, e - 1), fold),
          rest |-> Drop(body, e + 1)]

\* A backslash in the main loop of syntax.parse: [ok, nodes, rest]
ReParseBackslash(t, flags) ==
    LET One(op) == [ok |-> TRUE, nodes |-> <<Re(op)>>, rest |-> Drop(t, 2)]
        Bad == [ok |-> FALSE, nodes |-> <<>>, rest |-> <<>>]
        c == t[2]
    IN  IF Len(t) < 2 THEN Bad
        ELSE IF c = "A" THEN One("bot")
        ELSE IF c = "b" THEN One("wb")
        ELSE IF c = "B" THEN One("nwb")
        ELSE IF c = "C" THEN Bad
        ELSE IF c = "z" THEN One("eot")
        ELSE IF c = "Q"
        THEN ReQuotedOperand(Drop(t, 2), ReIndex(Drop(t, 2), <<"\\", "E">>), flags.i)
        ELSE IF c \in {"p", "P"} THEN ReItemOperand(ReParseUnicodeClass(t), flags.i)
        ELSE IF RePerlGroup(c).ok
        THEN [ok |-> TRUE, nodes |-> <<ReClass(<<RePerlGroup(c).item>>, FALSE, flags.i)>>,
              rest |-> Drop(t, 2)]
        ELSE ReEscapeOperand(ReParseEscape(t), flags.i)

\* One operand of the main loop of syntax.parse: ^ $ . a class, an escape
\* or a literal character
ReParseOperand(t, flags) ==
    LET One(node) == [ok |-> TRUE, nodes |-> <<node>>, rest |-> Tail(t)]
        c == t[1]
    IN  IF c = "^" THEN One(Re(IF flags.m THEN "bol" ELSE "bot"))
        ELSE IF c = "$" THEN One(Re(IF flags.m THEN "eol" ELSE "eot"))
        ELSE IF c = "."
        THEN One(IF flags.s THEN ReClass(<<ReItem(<<<<0, ReMaxRune>>>>, FALSE)>>, FALSE, FALSE)
                 ELSE ReClass(<<ReOne(10)>>, TRUE, FALSE))
        ELSE IF c = "[" THEN ReParseClass(t, flags.i)
        ELSE IF c = "\\" THEN ReParseBackslash(t, flags)
        ELSE One(ReLit(OrdOf[c], flags.i))

\* parser.parseInt: a decimal number without leading zeros.  A number
\* above ReMaxRepeat is reported as ReMaxRepeat + 1 (it is refused whatever
\* its value).
ReMaxRepeat == 1000

RECURSIVE ReDigitsValue(_, _)
ReDigitsValue(t, n) ==
    IF t = <<>> \/ t[1] \notin ReDigits THEN [value |-> n, rest |-> t]
    ELSE ReDigitsValue(Tail(t),
                       IF n * 10 + ReUnhex(t[1]) > ReMaxRepeat THEN ReMaxRepeat + 1
                       ELSE n * 10 + ReUnhex(t[1]))

ReParseInt(t) ==
    IF t = <<>> \/ t[1] \notin ReDigits \/ (Len(t) >= 2 /\ t[1] = "0" /\ t[2] \in ReDigits)
    THEN [ok |-> FALSE, value |-> 0, rest |-> <<>>]
    ELSE [ok |-> TRUE] @@ ReDigitsValue(t, 0)

\* parser.parseRepeat, on a text that begins with '{': {n}, {n,} or {n,m};
\* max = -1 is "no upper limit".  ok = FALSE: the '{' is a literal.
ReParseRepeat(t) ==
    LET No == [ok |-> FALSE, op |-> "repeat", min |-> 0, max |-> 0, rest |-> <<>>]
        lo == ReParseInt(Tail(t))
        comma == lo.rest # <<>> /\ lo.rest[1] = ","
        open == comma /\ Len(lo.rest) >= 2 /\ lo.rest[2] = "}"
        hi == IF comma /\ ~open THEN ReParseInt(Tail(lo.rest)) ELSE lo
        close == IF open THEN Tail(lo.rest) ELSE hi.rest
    IN  IF ~lo.ok \/ ~hi.ok \/ close = <<>> \/ close[1] # "}" THEN No
        ELSE [ok |-> TRUE, op |-> "repeat", min |-> lo.value,
              max |-> IF open THEN -1 ELSE hi.value, rest |-> Tail(close)]

\* The operator at the front of t: * + ? or a counted repetition
ReParseRepeatOp(t) ==
    CASE t[1] = "*" -> [ok |-> TRUE, op |-> "star", min |-> 0, max |-> -1, rest |-> Tail(t)]
      [] t[1] = "+" -> [ok |-> TRUE, op |-> "plus", min |-> 1, max |-> -1, rest |-> Tail(t)]
      [] t[1] = "?" -> [ok |-> TRUE, op |-> "quest", min |-> 0, max |-> 1, rest |-> Tail(t)]
      [] t[1] = "{" -> ReParseRepeat(t)
      [] OTHER -> [ok |-> FALSE, op |-> "", min |-> 0, max |-> 0, rest |-> <<>>]

\* syntax.repeatIsValid: nested counted repetitions multiply to at most n
RECURSIVE ReRepeatIsValid(_, _)
ReRepeatIsValid(re, n) ==
    LET counted == re.op = "repeat"
        m == IF re.max < 0 THEN re.min ELSE re.max
    IN  IF counted /\ re.max = 0 THEN TRUE
        ELSE IF counted /\ m > n THEN FALSE
        ELSE \A k \in DOMAIN re.subs :
                ReRepeatIsValid(re.subs[k], IF counted /\ m > 0 THEN n \div m ELSE n)

\* syntax.isValidCaptureName
ReIsValidCaptureName(name) ==
    name # <<>> /\ \A k \in DOMAIN name : name[k] = "_" \/ ReIsAlnum(name[k])

\* The flag letters of (?flags) and (?flags:, t after "(?": what the loop
\* of parser.parsePerlFlags does.  group = TRUE: a group was opened.
RECURSIVE ReFlagLoop(_, _, _, _)
ReFlagLoop(t, flags, minus, sawFlag) ==
    LET Bad == [ok |-> FALSE, group |-> FALSE, flags |-> flags, rest |-> <<>>, name |-> <<>>]
        c == t[1]
    IN  IF t = <<>> THEN Bad
        ELSE IF c = "i" THEN ReFlagLoop(Tail(t), [flags EXCEPT !.i = ~minus], minus, TRUE)
        ELSE IF c = "m" THEN ReFlagLoop(Tail(t), [flags EXCEPT !.m = ~minus], minus, TRUE)
        ELSE IF c = "s" THEN ReFlagLoop(Tail(t), [flags EXCEPT !.s = ~minus], minus, TRUE)
        ELSE IF c = "U" THEN ReFlagLoop(Tail(t), flags, minus, TRUE)
        ELSE IF c = "-" THEN (IF minus THEN Bad ELSE ReFlagLoop(Tail(t), flags, TRUE, FALSE))
        ELSE IF c \in {":", ")"}
        THEN IF minus /\ ~sawFlag THEN Bad
             ELSE [ok |-> TRUE, group |-> c = ":", flags |-> flags, rest |-> Tail(t),
                   name |-> <<>>]
        ELSE Bad

\* parser.parsePerlFlags, on a text that begins with "(?": a named group
\* (?P<name> or (?<name>, a group with flags, or a change of flags.
\* flags are the flags in force behind it (inside the group, if one opens).
ReParsePerlFlags(t, flags) ==
    LET named == (Len(t) > 4 /\ t[3] = "P" /\ t[4] = "<") \/ (Len(t) > 3 /\ t[3] = "<")
        begin == IF t[3] = "P" THEN 5 ELSE 4
        end == ReIndex(t, <<">">>)
        name == SubSeq(t, begin, end - 1)
    IN  IF ~named THEN ReFlagLoop(Drop(t, 2), flags, FALSE, FALSE)
        ELSE [ok |-> end # 0 /\ ReIsValidCaptureName(name),
              group |-> TRUE, flags |-> flags, rest |-> Drop(t, end), name |-> name]

\* What parser.concat and parser.alternate leave at the end of a group
ReFinish(items, alts) ==
    IF alts = <<>> THEN ReGroup("cat", items)
    ELSE ReGroup("alt", Append(alts, ReGroup("cat", items)))

\* The loop of syntax.parse from the text t on.  items are the operands of
\* the concatenation being read, alts the alternatives of the group that
\* are complete, rep tells that the token before was a repetition, inGroup
\* that a '(' is open.  The result is [ok, node, rest]; it ends at the ')'
\* of the group or at the end.  A capture name may be used more than once.
RECURSIVE ReParse(_, _, _, _, _, _)

ReBad == [ok |-> FALSE, node |-> Re("cat"), rest |-> <<>>]

\* After the group g, closed by its ')': the flags are those before it
\* (parser.parseRightParen); a capturing group makes a node of its own.
ReAfterGroup(g, cap, flags, items, alts, inGroup) ==
    IF ~g.ok THEN ReBad
    ELSE ReParse(g.rest, flags,
                 Append(items, IF cap THEN ReGroup("cap", <<g.node>>) ELSE g.node),
                 alts, FALSE, inGroup)

\* After "(?...": a group that opens, or flags that change
ReAfterPerlFlags(pf, flags, items, alts, inGroup) ==
    IF ~pf.ok THEN ReBad
    ELSE IF pf.group
    THEN ReAfterGroup(ReParse(pf.rest, pf.flags, <<>>, <<>>, FALSE, TRUE),
                      pf.name # <<>>, flags, items, alts, inGroup)
    ELSE ReParse(pf.rest, pf.flags, items, alts, FALSE, inGroup)

\* After an operand
ReAfterOperand(o, flags, items, alts, inGroup) ==
    IF ~o.ok THEN ReBad
    ELSE ReParse(o.rest, flags, items \o o.nodes, alts, FALSE, inGroup)

\* parser.repeat with the node it makes: the operand before is replaced
ReAfterRepeat(r, node, flags, items, alts, inGroup) ==
    IF r.op = "repeat" /\ (r.min >= 2 \/ r.max >= 2) /\ ~ReRepeatIsValid(node, ReMaxRepeat)
    THEN ReBad
    ELSE ReParse(IF r.rest # <<>> /\ r.rest[1] = "?" THEN Tail(r.rest) ELSE r.rest,
                 flags, [items EXCEPT ![Len(items)] = node], alts, TRUE, inGroup)

\* * + ? or '{' at the front of t, r being the operator read there.  A '{'
\* that begins no repetition is a literal; a repetition needs an operand
\* before it that is not itself a repetition, and a size within the limit.
ReAtRepeat(r, t, flags, items, alts, rep, inGroup) ==
    IF ~r.ok THEN ReAfterOperand(ReParseOperand(t, flags), flags, items, alts, inGroup)
    ELSE IF r.min > ReMaxRepeat \/ r.max > ReMaxRepeat \/ (r.max >= 0 /\ r.min > r.max)
    THEN ReBad
    ELSE IF rep \/ items = <<>> THEN ReBad
    ELSE ReAfterRepeat(r, ReRepeat(r.op, items[Len(items)], r.min, r.max),
                       flags, items, alts, inGroup)

ReParse(t, flags, items, alts, rep, inGroup) ==
    IF t = <<>>
    THEN IF inGroup THEN ReBad
         ELSE [ok |-> TRUE, node |-> ReFinish(items, alts), rest |-> <<>>]
    ELSE IF t[1] = ")"
    THEN IF ~inGroup THEN ReBad
         ELSE [ok |-> TRUE, node |-> ReFinish(items, alts), rest |-> Tail(t)]
    ELSE IF t[1] = "|"
    THEN ReParse(Tail(t), flags, <<>>, Append(alts, ReGroup("cat", items)), FALSE,
                 inGroup)
    ELSE IF t[1] = "(" /\ Len(t) >= 2 /\ t[2] = "?"
    THEN ReAfterPerlFlags(ReParsePerlFlags(t, flags), flags, items, alts, inGroup)
    ELSE IF t[1] = "("
    THEN ReAfterGroup(ReParse(Tail(t), flags, <<>>, <<>>, FALSE, TRUE),
                      TRUE, flags, items, alts, inGroup)
    ELSE IF t[1] \in {"*", "+", "?", "{"}
    THEN ReAtRepeat(ReParseRepeatOp(t), t, flags, items, alts, rep, inGroup)
    ELSE ReAfterOperand(ReParseOperand(t, flags), flags, items, alts, inGroup)

ReCompiled(r) == [ok |-> r.ok, node |-> r.node]

\* The longest expression that is compiled here.  The parser refuses a tree
\* higher than 1000 nodes or larger than its limits of size (ErrNestingDepth,
\* ErrLarge), counted on the tree as it rewrites it; no expression of so few
\* characters has the nodes, repetitions or classes to come near them.
ReMaxExpr == 100

\* regexp.Compile: nil (ok = FALSE) when the expression does not parse.  For
\* an expression longer than ReMaxExpr nothing is said.
RegexpCompile(p) ==
    CASE Len(p) <= ReMaxExpr -> ReCompiled(ReParse(p, RePerl, <<>>, <<>>, FALSE, FALSE))

\* The characters that simple case folding makes equal to the one of code n
\* (unicode.SimpleFold): the other case of a letter, and for k and s the
\* Kelvin sign and the long s.
ReOrbit(n) ==
    IF n \in {75, 107, 8490} THEN {75, 107, 8490}
    ELSE IF n \in {83, 115, 383} THEN {83, 115, 383}
    ELSE IF 65 <= n /\ n <= 90 THEN {n, n + 32}
    ELSE IF 97 <= n /\ n <= 122 THEN {n, n - 32}
    ELSE {n}

ReInItem(item, n, fold) ==
    (\E d \in (IF fold THEN ReOrbit(n) ELSE {n}) :
        \E k \in DOMAIN item.ranges : item.ranges[k][1] <= d /\ d <= item.ranges[k][2])
    # item.neg

\* The character of code n belongs to the class
ReInClass(node, n) == (\E k \in DOMAIN node.items : ReInItem(node.items[k], n, node.fold)) # node.neg

\* syntax.IsWordChar on the k-th character of s, FALSE outside of s
ReWordAt(s, k) ==
    /\ 1 <= k /\ k <= Len(s)
    /\ \E r \in DOMAIN ReWordRanges :
            ReWordRanges[r][1] <= OrdOf[s[k]] /\ OrdOf[s[k]] <= ReWordRanges[r][2]

ReIf(cond, i) == IF cond THEN {i} ELSE {}

\* ReEnds(node, s, i): where a match of node may end in s when it starts
\* after the first i characters.  ReStep applies a node to a set of starts.
RECURSIVE ReEnds(_, _, _)
RECURSIVE ReCatEnds(_, _, _, _)
RECURSIVE ReIterate(_, _, _, _)
RECURSIVE ReClosure(_, _, _, _, _)

ReStep(node, s, starts) == UNION {ReEnds(node, s, p) : p \in starts}

\* the operands of a concatenation from the k-th on
ReCatEnds(subs, k, s, starts) ==
    IF k > Len(subs) \/ starts = {} THEN starts
    ELSE ReCatEnds(subs, k + 1, s, ReStep(subs[k], s, starts))

\* exactly n repetitions
ReIterate(sub, s, starts, n) ==
    IF n = 0 \/ starts = {} THEN starts
    ELSE ReIterate(sub, s, ReStep(sub, s, starts), n - 1)

\* at most budget further repetitions (budget < 0: any number)
ReClosure(sub, s, acc, frontier, budget) ==
    IF frontier = {} \/ budget = 0 THEN acc
    ELSE LET nxt == ReStep(sub, s, frontier) \ acc
         IN  ReClosure(sub, s, acc \cup nxt, nxt, IF budget < 0 THEN budget ELSE budget - 1)

ReEnds(node, s, i) ==
    CASE node.op = "class" -> ReIf(i < Len(s) /\ ReInClass(node, OrdOf[s[i + 1]]), i + 1)
      [] node.op = "bot" -> ReIf(i = 0, i)
      [] node.op = "eot" -> ReIf(i = Len(s), i)
      [] node.op = "bol" -> ReIf(i = 0 \/ OrdOf[s[i]] = 10, i)
      [] node.op = "eol" -> ReIf(i = Len(s) \/ OrdOf[s[i + 1]] = 10, i)
      [] node.op = "wb" -> ReIf(ReWordAt(s, i) # ReWordAt(s, i + 1), i)
      [] node.op = "nwb" -> ReIf(ReWordAt(s, i) = ReWordAt(s, i + 1), i)
      [] node.op \in {"cat", "cap"} -> ReCatEnds(node.subs, 1, s, {i})
      [] node.op = "alt" -> UNION {ReEnds(node.subs[k], s, i) : k \in DOMAIN node.subs}
      [] OTHER ->
            \* star, plus, quest, repeat: min repetitions, then up to max.
            \* After Len(s) + 1 repetitions the set of ends no longer changes.
            LET least == IF node.min > Len(s) + 1 THEN Len(s) + 1 ELSE node.min
                from == ReIterate(node.subs[1], s, {i}, least)
            IN  ReClosure(node.subs[1], s, from, from,
                          IF node.max < 0 THEN -1 ELSE node.max - node.min)

\* Regexp.MatchString: the expression matches somewhere in s.
MatchString(re, s) == \E i \in 0..Len(s) : ReEnds(re.node, s, i) # {}

----------------------------------------------------------------------------
(* url.Parse of the endpoint "https://<vcenter_server>/sdk" (net/url).     *)
(* Each operator gives the reason of the error, "" when there is none.     *)
(* The text between the brackets of an IP literal is not checked to be an  *)
(* address.                                                                *)

\* fmt.Sprintf("https://%v/sdk", config.VCenterServer)
Endpoint(server) == <<"h", "t", "t", "p", "s", ":", "/", "/">> \o server \o <<"/", "s", "d", "k">>

\* The position of the last occurrence of the character c in t, 0 if none
UrlLastIndex(t, c) ==
    IF \E i \in DOMAIN t : t[i] = c
    THEN CHOOSE i \in DOMAIN t : t[i] = c /\ \A j \in (i + 1)..Len(t) : t[j] # c
    ELSE 0

\* url.shouldEscape in the modes encodeHost and encodeZone, negated
UrlHostChar(c) ==
    \/ ReIsAlnum(c)
    \/ c \in {"!", "$", "&", "'", "(", ")", "*", "+", ",", ";", "=", ":", "[", "]", "<", ">",
              "\"", "-", "_", ".", "~"}

\* The byte that the escape %xy at position i of s stands for, -1 when
\* x or y is not a hexadecimal digit
UrlEscaped(s, i) ==
    IF i + 2 <= Len(s) /\ ReUnhex(s[i + 1]) >= 0 /\ ReUnhex(s[i + 2]) >= 0
    THEN ReUnhex(s[i + 1]) * 16 + ReUnhex(s[i + 2])
    ELSE -1

\* What url.unescape refuses at position i of s, "" if nothing.  mode is
\* "host" (encodeHost), "zone" (encodeZone) or "other" (path, fragment,
\* user and password).
UrlRefusedAt(s, i, mode) ==
    LET v == UrlEscaped(s, i)
        is25 == v = 37
    IN  IF s[i] = "%"
        THEN IF v < 0 THEN "invalid URL escape"
             ELSE IF mode = "host" /\ v < 128 /\ ~is25 THEN "invalid URL escape"
             ELSE IF mode = "zone" /\ ~is25 /\ v # 32
                     /\ ~(32 < v /\ v < 127 /\ UrlHostChar(Chars[v - 31]))
             THEN "invalid URL escape"
             ELSE ""
        ELSE IF mode # "other" /\ ~UrlHostChar(s[i]) THEN "invalid character in host name"
        ELSE ""

\* url.unescape: the error at the first position that is refused
UrlUnescape(s, mode) ==
    LET refused == {i \in DOMAIN s : UrlRefusedAt(s, i, mode) # ""}
    IN  IF refused = {} THEN ""
        ELSE UrlRefusedAt(s, CHOOSE i \in refused : \A j \in refused : i <= j, mode)

\* The first of the errors that is not ""
UrlFirst(errs) ==
    LET bad == {k \in DOMAIN errs : errs[k] # ""}
    IN  IF bad = {} THEN "" ELSE errs[CHOOSE k \in bad : \A j \in bad : k <= j]

\* url.validOptionalPort
UrlValidOptionalPort(port) ==
    port = <<>> \/ (port[1] = ":" /\ \A k \in 2..Len(port) : port[k] \in ReDigits)

\* url.parseHost
UrlParseHost(host) ==
    LET close == UrlLastIndex(host, "]")
        colon == UrlLastIndex(host, ":")
        zone == ReIndex(SubSeq(host, 1, close - 1), <<"%", "2", "5">>)
    IN  IF host # <<>> /\ host[1] = "["
        THEN IF close = 0 THEN "missing ']' in host"
             ELSE IF ~UrlValidOptionalPort(Drop(host, close)) THEN "invalid port after host"
             ELSE IF zone > 0
             THEN UrlFirst(<<UrlUnescape(SubSeq(host, 1, zone - 1), "host"),
                             UrlUnescape(SubSeq(host, zone, close - 1), "zone"),
                             UrlUnescape(Drop(host, close - 1), "host")>>)
             ELSE UrlUnescape(host, "host")
        ELSE IF colon > 0 /\ ~UrlValidOptionalPort(Drop(host, colon - 1))
        THEN "invalid port after host"
        ELSE UrlUnescape(host, "host")

\* url.validUserinfo
UrlValidUserinfo(s) ==
    \A k \in DOMAIN s :
        \/ ReIsAlnum(s[k])
        \/ s[k] \in {"-", ".", "_", ":", "~", "!", "$", "&", "'", "(", ")", "*", "+", ",", ";",
                     "=", "%", "@"}

\* url.parseAuthority: the host behind the last '@', the user and password
\* before it
UrlParseAuthority(authority) ==
    LET at == UrlLastIndex(authority, "@")
        userinfo == SubSeq(authority, 1, at - 1)
    IN  UrlFirst(<<UrlParseHost(Drop(authority, at)),
                   IF at > 0 /\ ~UrlValidUserinfo(userinfo) THEN "invalid userinfo" ELSE "",
                   IF at > 0 THEN UrlUnescape(userinfo, "other") ELSE "">>)

\* The part of t before the first character c (all of t if there is none)
UrlBefore(t, c) == IF ReIndex(t, <<c>>) = 0 THEN t ELSE SubSeq(t, 1, ReIndex(t, <<c>>) - 1)

\* The part of t from the first character c on (nothing if there is none)
UrlFrom(t, c) == IF ReIndex(t, <<c>>) = 0 THEN <<>> ELSE Drop(t, ReIndex(t, <<c>>) - 1)

\* url.Parse of an https URL: the fragment is cut off, then the query, the
\* rest is "//", the authority and the path.
UrlParse(rawURL) ==
    LET u == UrlBefore(rawURL, "#")
        frag == IF UrlFrom(rawURL, "#") = <<>> THEN <<>> ELSE Tail(UrlFrom(rawURL, "#"))
        rest == UrlBefore(Drop(u, 6), "?")
        authority == UrlBefore(Drop(rest, 2), "/")
        path == UrlFrom(Drop(rest, 2), "/")
    IN  UrlFirst(<<UrlParseAuthority(authority),
                   UrlUnescape(path, "other"),
                   UrlUnescape(frag, "other")>>)

----------------------------------------------------------------------------
(* Filters.  Each returns [res, err, calls, panic]: the list and error the *)
(* Go function returns, the remote calls it issued, and whether it died    *)
(* with a nil dereference.  f is the ordinal of the filter's remote call   *)
(* that the inventory service answers with an error (0: none).             *)

Call(op, vm, ref, ok) == [op |-> op, vm |-> vm, ref |-> ref, ok |-> ok]

Returned(result, cs) == [res |-> result, err |-> NoErr, calls |-> cs, panic |-> FALSE]

Failed(msg, cause, cs) == [res |-> NoList, err |-> <<msg, cause>>, calls |-> cs, panic |-> FALSE]

Panicked(cs) == [res |-> NoList, err |-> NoErr, calls |-> cs, panic |-> TRUE]

\* The loop of filterByNameRegex with a compiled expression.
RegexKeep(re, name) == MatchString(re, name)

RECURSIVE Reverse(_)
Reverse(s) == IF s = <<>> THEN <<>> ELSE Append(Reverse(Tail(s)), Head(s))

\* The machines of vmList that the loop of filterByNameRegex appends
NameRegexLoop(re, vmList) == SelectSeq(vmList, LAMBDA vm : re.ok /\ RegexKeep(re, VMName(vm)))

\* The loop over vmList with what regexp.Compile returned: MatchString on
\* the nil *Regexp dereferences it as soon as the loop body runs.
NameRegexRun(re, vmList) ==
    IF ~re.ok /\ vmList # <<>> THEN Panicked(<<>>)
    ELSE Returned(NameRegexLoop(re, vmList), <<>>)

\* Mutant: the matching machines are returned last first.
NameRegexRunReversed(re, vmList) ==
    IF ~re.ok /\ vmList # <<>> THEN Panicked(<<>>)
    ELSE Returned(Reverse(NameRegexLoop(re, vmList)), <<>>)

filterByNameRegexReversed(vmList, nameRegex) ==
    NameRegexRunReversed(RegexpCompile(nameRegex), vmList)

\* filterByNameRegex: the compile error is dropped.
filterByNameRegex(vmList, nameRegex) == NameRegexRun(RegexpCompile(nameRegex), vmList)

\* Mutant: the template flag is not looked at.
TemplateKeepAll(isTemplate) == TRUE

TemplateKeep(isTemplate) == isTemplate

RECURSIVE TemplateLoop(_, _, _, _, _)
TemplateLoop(vmList, i, result, cs, f) ==
    IF i > Len(vmList) THEN Returned(result, cs)
    ELSE LET bad == (Len(cs) + 1 = f)
             cs2 == Append(cs, Call("IsTemplate", vmList[i], "", ~bad))
         IN  IF bad
             THEN Failed("error checking if virtual machine is a template", "remote", cs2)
             ELSE TemplateLoop(vmList, i + 1,
                               IF TemplateKeep(inv[vmList[i]].isTemplate)
                               THEN Append(result, vmList[i]) ELSE result,
                               cs2, f)

\* Mutant: a failed IsTemplate fetch drops the machine and the loop goes on.
RECURSIVE TemplateLoopBestEffort(_, _, _, _, _)
TemplateLoopBestEffort(vmList, i, result, cs, f) ==
    IF i > Len(vmList) THEN Returned(result, cs)
    ELSE LET bad == (Len(cs) + 1 = f)
             cs2 == Append(cs, Call("IsTemplate", vmList[i], "", ~bad))
         IN  TemplateLoopBestEffort(vmList, i + 1,
                                    IF ~bad /\ inv[vmList[i]].isTemplate
                                    THEN Append(result, vmList[i]) ELSE result,
                                    cs2, f)

filterByTemplateBestEffort(vmList, f) == TemplateLoopBestEffort(vmList, 1, <<>>, <<>>, f)

\* Mutant: every machine is fetched before a failed fetch is reported.
RECURSIVE TemplateLoopFetchAll(_, _, _, _, _, _)
TemplateLoopFetchAll(vmList, i, result, cs, f, failed) ==
    IF i > Len(vmList)
    THEN IF failed
         THEN Failed("error checking if virtual machine is a template", "remote", cs)
         ELSE Returned(result, cs)
    ELSE LET bad == (Len(cs) + 1 = f)
             cs2 == Append(cs, Call("IsTemplate", vmList[i], "", ~bad))
         IN  TemplateLoopFetchAll(vmList, i + 1,
                                  IF ~bad /\ inv[vmList[i]].isTemplate
                                  THEN Append(result, vmList[i]) ELSE result,
                                  cs2, f, failed \/ bad)

filterByTemplateFetchAll(vmList, f) == TemplateLoopFetchAll(vmList, 1, <<>>, <<>>, f, FALSE)

filterByTemplate(vmList, f) == TemplateLoop(vmList, 1, <<>>, <<>>, f)

\* Inner loop of filterByHost: filteredVm is appended once for every machine
\* of the host that bears its name.
RECURSIVE HostInner(_, _, _, _)
HostInner(vm, hostVms, k, result) ==
    IF k > Len(hostVms) THEN result
    ELSE HostInner(vm, hostVms, k + 1,
                   IF VMName(vm) = hostVms[k] THEN Append(result, vm) ELSE result)

RECURSIVE HostOuter(_, _, _, _)
HostOuter(vmList, hostVms, i, result) ==
    IF i > Len(vmList) THEN result
    ELSE HostOuter(vmList, hostVms, i + 1, HostInner(vmList[i], hostVms, 1, result))

\* Mutant: an unknown host is taken to mean that no host filter applies.
filterByHostLenient(host, vmList, f) ==
    LET c1 == Call("HostSystem", NilVM, host, f # 1 /\ host \in Hosts)
        c2 == Call("RetrieveOne", NilVM, host, f # 2)
        hostVms == HostVmNames(host)
        c3 == Call("Retrieve", NilVM, host, f # 3 /\ hostVms # <<>>)
    IN  IF f = 1
        THEN Failed("error finding defined host system", "remote", <<c1>>)
        ELSE IF ~c1.ok
        THEN Returned(vmList, <<[c1 EXCEPT !.ok = TRUE]>>)
        ELSE IF ~c2.ok
        THEN Failed("error retrieving properties of host system", "remote", <<c1, c2>>)
        ELSE IF ~c3.ok
        THEN Failed("failed to get properties for the virtual machine",
                    IF hostVms = <<>> THEN "object references is empty" ELSE "remote",
                    <<c1, c2, c3>>)
        ELSE Returned(HostOuter(vmList, hostVms, 1, <<>>), <<c1, c2, c3>>)

\* filterByHost.  Finder.HostSystem fails for an unknown host; the property
\* collector's Retrieve refuses an empty list of references before anything
\* is sent, so a host without machines makes the third call fail in every run.
filterByHost(host, vmList, f) ==
    LET c1 == Call("HostSystem", NilVM, host, f # 1 /\ host \in Hosts)
        c2 == Call("RetrieveOne", NilVM, host, f # 2)
        hostVms == HostVmNames(host)
        c3 == Call("Retrieve", NilVM, host, f # 3 /\ hostVms # <<>>)
    IN  IF ~c1.ok
        THEN Failed("error finding defined host system",
                    IF f = 1 THEN "remote" ELSE "not found", <<c1>>)
        ELSE IF ~c2.ok
        THEN Failed("error retrieving properties of host system", "remote", <<c1, c2>>)
        ELSE IF ~c3.ok
        THEN Failed("failed to get properties for the virtual machine",
                    IF hostVms = <<>> THEN "object references is empty" ELSE "remote",
                    <<c1, c2, c3>>)
        ELSE Returned(HostOuter(vmList, hostVms, 1, <<>>), <<c1, c2, c3>>)

\* Loop over realTagsList for one configTag, from position k on.
\* Returns [matched, bad, calls].
RECURSIVE RealTagsLoop(_, _, _, _, _)
RealTagsLoop(configTag, realTagsList, k, cs, f) ==
    IF k > Len(realTagsList) THEN [matched |-> FALSE, bad |-> FALSE, calls |-> cs]
    ELSE IF configTag.Name = realTagsList[k].Name
    THEN LET bad == (Len(cs) + 1 = f)
             cs2 == Append(cs, Call("GetCategory", NilVM, realTagsList[k].CategoryID, ~bad))
         IN  IF bad THEN [matched |-> FALSE, bad |-> TRUE, calls |-> cs2]
             ELSE IF configTag.Category = CategoryName(realTagsList[k].CategoryID)
             THEN [matched |-> TRUE, bad |-> FALSE, calls |-> cs2]
             ELSE RealTagsLoop(configTag, realTagsList, k + 1, cs2, f)
    ELSE RealTagsLoop(configTag, realTagsList, k + 1, cs, f)

\* Mutant: an unmatched required tag does not end the loop over vmTags.
RECURSIVE ConfigTagsLoopNoBreak(_, _, _, _, _, _)
ConfigTagsLoopNoBreak(vmTags, realTagsList, j, matchedTagsCount, cs, f) ==
    IF j > Len(vmTags) THEN [count |-> matchedTagsCount, bad |-> FALSE, calls |-> cs]
    ELSE LET r == RealTagsLoop(vmTags[j], realTagsList, 1, cs, f)
         IN  IF r.bad THEN [count |-> matchedTagsCount, bad |-> TRUE, calls |-> r.calls]
             ELSE ConfigTagsLoopNoBreak(vmTags, realTagsList, j + 1,
                                        IF r.matched THEN matchedTagsCount + 1
                                        ELSE matchedTagsCount,
                                        r.calls, f)

\* Loop over vmTags for one machine.  Returns [count, bad, calls].
RECURSIVE ConfigTagsLoop(_, _, _, _, _, _)
ConfigTagsLoop(vmTags, realTagsList, j, matchedTagsCount, cs, f) ==
    IF j > Len(vmTags) THEN [count |-> matchedTagsCount, bad |-> FALSE, calls |-> cs]
    ELSE LET r == RealTagsLoop(vmTags[j], realTagsList, 1, cs, f)
         IN  IF r.bad THEN [count |-> matchedTagsCount, bad |-> TRUE, calls |-> r.calls]
             ELSE IF r.matched
             THEN ConfigTagsLoop(vmTags, realTagsList, j + 1, matchedTagsCount + 1, r.calls, f)
             ELSE [count |-> matchedTagsCount, bad |-> FALSE, calls |-> r.calls]

\* Mutant: one matched tag is enough.
TagsKeepAny(matchedTagsCount, vmTags) == matchedTagsCount > 0 \/ Len(vmTags) = 0

TagsKeep(matchedTagsCount, vmTags) == matchedTagsCount = Len(vmTags)

RECURSIVE TagsLoop(_, _, _, _, _, _)
TagsLoop(vmTags, vmList, i, result, cs, f) ==
    IF i > Len(vmList) THEN Returned(result, cs)
    ELSE LET bad == (Len(cs) + 1 = f)
             cs2 == Append(cs, Call("GetAttachedTags", vmList[i], "", ~bad))
         IN  IF bad
             THEN Failed("failed return tags for the virtual machine", "remote", cs2)
             ELSE LET r == ConfigTagsLoop(vmTags, inv[vmList[i]].tags, 1, 0, cs2, f)
                  IN  IF r.bad
                      THEN Failed("failed to return tag category for tag", "remote", r.calls)
                      ELSE TagsLoop(vmTags, vmList, i + 1,
                                    IF TagsKeep(r.count, vmTags)
                                    THEN Append(result, vmList[i]) ELSE result,
                                    r.calls, f)

filterByTags(vmTags, vmList, f) == TagsLoop(vmTags, vmList, 1, <<>>, <<>>, f)

\* Mutant: a machine as recent as the current choice replaces it.
AfterOrEqual(t, u) == t >= u

\* time.Time.After
After(t, u) == t > u

RECURSIVE LatestLoop(_, _, _, _, _, _)
LatestLoop(vmList, i, latestVM, latestTimestamp, cs, f) ==
    IF i > Len(vmList) THEN Returned(<<latestVM>>, cs)
    ELSE LET bad == (Len(cs) + 1 = f)
             cs2 == Append(cs, Call("Properties", vmList[i], "", ~bad))
             createDate == inv[vmList[i]].createDate
         IN  IF bad
             THEN Failed("error retrieving config properties for the virtual machine",
                         "remote", cs2)
             ELSE IF createDate = Absent THEN Panicked(cs2)
             ELSE IF After(createDate, latestTimestamp)
             THEN LatestLoop(vmList, i + 1, vmList[i], createDate, cs2, f)
             ELSE LatestLoop(vmList, i + 1, latestVM, latestTimestamp, cs2, f)

filterByLatest(vmList, f) == LatestLoop(vmList, 1, NilVM, ZeroTime, <<>>, f)

----------------------------------------------------------------------------
(* Initial states: a decoded configuration and an inventory *)

NameA == <<"a">>
NameBA == <<"b", "a">>

Star == <<"*">>

\* A server name (and user name, and password) that is set
VC == <<"v", "c">>

\* Attached tags (tags.Tag: Name, CategoryID) and required tags (Tag: Name, Category)
OpsTeam == [Name |-> "ops", CategoryID |-> "urn:c1"]
OpsTier == [Name |-> "ops", CategoryID |-> "urn:c2"]
ProdTier == [Name |-> "prod", CategoryID |-> "urn:c2"]

ReqOpsTeam == [Name |-> "ops", Category |-> "team"]
ReqOpsTier == [Name |-> "ops", Category |-> "tier"]
ReqProdTier == [Name |-> "prod", Category |-> "tier"]

Times == 1..(NumVMs + 1)

Machines(names, templates, hosts, dates, tagLists) ==
    [name : names, isTemplate : templates, host : hosts, createDate : dates, tags : tagLists]

Inventories(machines) == UNION {[1..n -> machines] : n \in 1..NumVMs}

Configs(conns, globs, regexes, templates, hosts, tagsNil, tagLists, latests) ==
    [VCenterServer : conns, Username : conns, Password : conns,
     Name : globs, NameRegex : regexes, Template : templates, Host : hosts,
     TagsNil : tagsNil, Tags : tagLists, Latest : latests]

NoOutcome == [kind |-> "none", value |-> <<>>, err |-> NoErr]

\* No earlier run
NoFirst == [how |-> "none", outcome |-> NoOutcome, calls |-> <<>>]

\* raws either decodes into the configuration or is refused by config.Decode
StartRaw(configs, inventories, decodes) ==
    /\ config \in configs
    /\ config.TagsNil => config.Tags = <<>>
    /\ raws \in [decodes : decodes, cfg : {config}]
    /\ first = NoFirst
    /\ inv \in inventories
    /\ pc = "configure"
    /\ filteredVms = <<>>
    /\ calls = <<>>
    /\ stages = <<>>
    /\ outcome = NoOutcome

Start(configs, inventories) == StartRaw(configs, inventories, {TRUE})

\* names, regular expressions, templates, cardinality
InitNames ==
    Start(Configs({VC}, {<<>>, Star, <<"a", "*">>, <<"c", "*">>},
                  {<<>>, <<"a">>, <<"^", "a", "$">>, <<"b">>, <<"(">>},
                  BOOLEAN, {""}, {TRUE}, {<<>>}, BOOLEAN),
          Inventories(Machines({NameA, NameBA}, BOOLEAN, {"h1"}, {1, 2}, {<<>>})))

\* host placement, with machines that share a name
InitHosts ==
    Start(Configs({VC}, {Star}, {<<>>}, BOOLEAN, {"h1", "h2", "h9"},
                  {TRUE}, {<<>>}, BOOLEAN),
          Inventories(Machines({NameA, NameBA}, BOOLEAN, {"h1", "h2"}, {1}, {<<>>})))

\* tags
InitTags ==
    Start(Configs({VC}, {Star}, {<<>>}, {FALSE}, {""}, BOOLEAN,
                  {<<>>, <<ReqOpsTeam>>, <<ReqOpsTier>>, <<ReqOpsTeam, ReqProdTier>>,
                   <<ReqProdTier, ReqOpsTeam>>, <<ReqOpsTeam, ReqOpsTier>>,
                   <<ReqOpsTeam, ReqOpsTeam>>},
                  BOOLEAN),
          Inventories(Machines({NameA, NameBA}, {FALSE}, {"h1"}, {1},
                               {<<>>, <<OpsTeam>>, <<OpsTier>>, <<OpsTier, OpsTeam>>,
                                <<OpsTeam, ProdTier>>, <<ProdTier, OpsTier, OpsTeam>>})))

\* creation dates
InitDates ==
    Start(Configs({VC}, {Star}, {<<>>, <<"a">>}, {FALSE}, {""}, {TRUE}, {<<>>}, BOOLEAN),
          Inventories(Machines({NameA, NameBA}, {TRUE}, {"h1"},
                               {Absent, ZeroTime} \cup Times, {<<>>})))

\* name, template, host and latest together
InitMixed ==
    Start(Configs({VC}, {Star}, {<<>>, <<"a", "$">>}, BOOLEAN, {"", "h1"}, {TRUE},
                  {<<>>}, BOOLEAN),
          Inventories(Machines({NameA, NameBA}, BOOLEAN, {"h1", "h2"}, {ZeroTime, 1},
                               {<<>>})))

\* regex, template, host, tags and latest together
InitMixedTags ==
    Start(Configs({VC}, {Star}, {<<>>, <<"a">>}, BOOLEAN, {"", "h1"}, BOOLEAN,
                  {<<>>, <<ReqOpsTeam>>}, BOOLEAN),
          Inventories(Machines({NameA, NameBA}, BOOLEAN, {"h1", "h2"}, {1},
                               {<<>>, <<OpsTeam>>})))

\* a host the inventory does not have, with tags and latest configured
InitUnknownHost ==
    Start(Configs({VC}, {Star}, {<<>>}, BOOLEAN, {"h9"}, {FALSE}, {<<ReqOpsTeam>>}, {TRUE}),
          Inventories(Machines({NameA, NameBA}, BOOLEAN, {"h1"}, {1}, {<<OpsTeam>>})))

\* connection fields and tag blocks, valid or not
InitConfigure ==
    StartRaw(Configs({<<>>, VC}, {<<>>, Star}, {<<>>}, {FALSE}, {""}, BOOLEAN,
                  {<<>>, <<ReqOpsTeam>>, <<[Name |-> "", Category |-> "team"]>>,
                   <<[Name |-> "ops", Category |-> ""], [Name |-> "", Category |-> ""]>>,
                   <<ReqOpsTeam, [Name |-> "", Category |-> "tier"]>>},
                  {FALSE}),
          Inventories(Machines({NameA}, {FALSE}, {"h1"}, {1}, {<<>>, <<OpsTeam>>})),
          BOOLEAN)

\* globs with '?', a class and an escape, one that path.Match refuses, and
\* regular expressions with classes (one with a script of unicode.Scripts),
\* groups (two of one name), alternatives and repetitions
InitPatterns ==
    Start(Configs({VC},
                  {<<"?">>, <<"[", "a", "b", "]", "*">>, <<"[", "^", "a", "]", "?">>,
                   <<"\\", "b", "a">>, <<"[">>},
                  {<<>>, <<"^", ".", "$">>, <<"a", "|", "c">>,
                   <<"(", "?", "P", "<", "n", ">", "b", ")", "(", "?", "<", "n", ">", "a", ")">>,
                   <<"[", "^", "\\", "p", "{", "L", "a", "o", "}", "b", "]", "+", "$">>,
                   <<"b", "{", "2", "}">>, <<"*">>, <<"(", "?", "i", ")", "B">>},
                  {TRUE}, {""}, {TRUE}, {<<>>}, BOOLEAN),
          Inventories(Machines({NameA, NameBA}, {TRUE}, {"h1"}, {1}, {<<>>})))

\* Servers as they may be written: with a port, with a user, and ones that
\* url.Parse refuses
Servers ==
    {VC, <<"v", "c", ":", "4", "4", "3">>, <<"u", "@", "v", "c">>, <<"a", " ", "b">>,
     <<"v", "c", ":", "x">>, <<"v", "%", "c">>, <<"[", "v", "c">>}

InitServers ==
    Start({[c EXCEPT !.VCenterServer = s] :
              c \in Configs({VC}, {Star}, {<<>>}, {FALSE}, {""}, BOOLEAN, {<<>>}, {FALSE}),
              s \in Servers},
          Inventories(Machines({NameA}, {FALSE}, {"h1"}, {1}, {<<>>})))

Init ==
    \/ InitNames
    \/ InitHosts
    \/ InitTags
    \/ InitDates
    \/ InitMixed
    \/ InitMixedTags
    \/ InitUnknownHost
    \/ InitConfigure
    \/ InitPatterns

----------------------------------------------------------------------------
(* Datasource.Configure *)

RECURSIVE TagErrs(_)
TagErrs(tagList) ==
    IF tagList = <<>> THEN <<>>
    ELSE (IF Head(tagList).Name = "" \/ Head(tagList).Category = ""
          THEN <<"both name and category are required for tag">> ELSE <<>>)
         \o TagErrs(Tail(tagList))

\* Mutant: Configure returns on the first problem it finds.
ConfigureErrsFirstOnly(cfg) ==
    IF cfg.VCenterServer = <<>> THEN <<"'vcenter_server' is required">>
    ELSE IF cfg.Username = <<>> THEN <<"'username' is required">>
    ELSE IF cfg.Password = <<>> THEN <<"'password' is required">>
    ELSE IF TagErrs(cfg.Tags) # <<>> THEN <<Head(TagErrs(cfg.Tags))>>
    ELSE <<>>

ConfigureErrs(cfg) ==
    (IF cfg.VCenterServer = <<>> THEN <<"'vcenter_server' is required">> ELSE <<>>)
    \o (IF cfg.Username = <<>> THEN <<"'username' is required">> ELSE <<>>)
    \o (IF cfg.Password = <<>> THEN <<"'password' is required">> ELSE <<>>)
    \o (IF Len(cfg.Tags) > 0 THEN TagErrs(cfg.Tags) ELSE <<>>)

\* Mutant: an unset name is left unset.
DefaultNameKept(cfg) == cfg

DefaultName(cfg) == IF cfg.Name = <<>> THEN [cfg EXCEPT !.Name = Star] ELSE cfg

Configure ==
    /\ pc = "configure"
    /\ IF ~raws.decodes
       THEN /\ pc' = "done"
            /\ outcome' = [kind |-> "config_error", value |-> <<>>, err |-> <<"decode">>]
            /\ UNCHANGED config
       ELSE /\ config' = DefaultName(config)
            /\ LET errs == ConfigureErrs(config')
               IN  IF errs # <<>>
                   THEN /\ pc' = "done"
                        /\ outcome' = [kind |-> "config_error", value |-> <<>>, err |-> errs]
                   ELSE /\ pc' = "driver"
                        /\ UNCHANGED outcome
    /\ UNCHANGED <<raws, first, inv, filteredVms, calls, stages>>

----------------------------------------------------------------------------
(* Datasource.Execute, one action per statement of the filter chain *)

ErrorOutcome(err) == [kind |-> "error", value |-> <<>>, err |-> err]

PanicOutcome == [kind |-> "panic", value |-> <<>>, err |-> NoErr]

\* dr, err := driver.NewDriver(d.config.ConnectConfig)
\* if err != nil { return ..., "failed to initialize driver: %w" }
\* The driver of package datasource/common/driver is a collaborator of the
\* data source: the call gives a driver or an error.
NewDriver ==
    /\ pc = "driver"
    /\ \E ok \in BOOLEAN :
            /\ calls' = Append(calls, Call("NewDriver", NilVM, "", ok))
            /\ IF ok
               THEN pc' = "glob" /\ UNCHANGED outcome
               ELSE /\ pc' = "done"
                    /\ outcome' = ErrorOutcome(<<"failed to initialize driver", "remote">>)
    /\ UNCHANGED <<raws, first, config, inv, filteredVms, stages>>

\* Why the finder fails: the listing of the folder failed, path.Match
\* refused the pattern, or nothing matched (NotFoundError).
GlobCause(bad, name) ==
    IF bad THEN "remote"
    ELSE IF GlobBad(name) THEN "syntax error in pattern"
    ELSE "not found"

\* Mutant: a glob that matches nothing yields an empty list and no error.
VirtualMachineListEmptyOk ==
    /\ pc = "glob"
    /\ \E bad \in BOOLEAN :
        LET found == GlobList(config.Name)
            ok == ~bad /\ ~GlobBad(config.Name)
        IN  /\ calls' = Append(calls, Call("VirtualMachineList", NilVM, "", ok))
            /\ stages' = Append(stages, [stage |-> "glob", input |-> <<>>,
                                         output |-> IF ok THEN found ELSE NoList])
            /\ IF ok
               THEN /\ filteredVms' = found
                    /\ pc' = "regex"
                    /\ UNCHANGED outcome
               ELSE /\ filteredVms' = <<>>
                    /\ pc' = "done"
                    /\ outcome' = ErrorOutcome(<<"failed to retrieve virtual machines list",
                                                 GlobCause(bad, config.Name)>>)
    /\ UNCHANGED <<raws, first, config, inv>>

\* filteredVms, err := dr.Finder.VirtualMachineList(dr.Ctx, d.config.Name)
VirtualMachineList ==
    /\ pc = "glob"
    /\ \E bad \in BOOLEAN :
        LET found == GlobList(config.Name)
            ok == ~bad /\ ~GlobBad(config.Name) /\ found # <<>>
        IN  /\ calls' = Append(calls, Call("VirtualMachineList", NilVM, "", ok))
            /\ stages' = Append(stages, [stage |-> "glob", input |-> <<>>,
                                         output |-> IF ok THEN found ELSE NoList])
            /\ IF ok
               THEN /\ filteredVms' = found
                    /\ pc' = "regex"
                    /\ UNCHANGED outcome
               ELSE /\ filteredVms' = <<>>
                    /\ pc' = "done"
                    /\ outcome' = ErrorOutcome(<<"failed to retrieve virtual machines list",
                                                 GlobCause(bad, config.Name)>>)
    /\ UNCHANGED <<raws, first, config, inv>>

\* The common shape of `filteredVms, err = filterByX(...); if err != nil { return ... }`
Apply(stage, input, r, wrap, next) ==
    /\ calls' = calls \o r.calls
    /\ stages' = Append(stages, [stage |-> stage, input |-> input, output |-> r.res])
    /\ IF r.panic
       THEN /\ pc' = "done"
            /\ outcome' = PanicOutcome
            /\ UNCHANGED filteredVms
       ELSE IF r.err # NoErr
       THEN /\ pc' = "done"
            /\ outcome' = ErrorOutcome(<<wrap>> \o r.err)
            /\ filteredVms' = <<>>
       ELSE /\ pc' = next
            /\ filteredVms' = r.res
            /\ UNCHANGED outcome
    /\ UNCHANGED <<raws, first, config, inv>>

Skip(next) ==
    /\ pc' = next
    /\ UNCHANGED <<raws, first, config, inv, filteredVms, calls, stages, outcome>>

\* Number of remote calls a filter issues when none fails
NumCalls(r) == Len(r.calls)

RegexGuard == config.NameRegex # <<>>

NameRegexStep ==
    /\ pc = "regex"
    /\ IF RegexGuard
       THEN Apply("regex", filteredVms, filterByNameRegex(filteredVms, config.NameRegex), "", "template")
       ELSE Skip("template")

TemplateGuard == Len(filteredVms) > 0 /\ config.Template

TemplateStep ==
    /\ pc = "template"
    /\ IF TemplateGuard
       THEN \E f \in 0..NumCalls(filterByTemplate(filteredVms, 0)) :
                Apply("template", filteredVms, filterByTemplate(filteredVms, f),
                      "failed to filter by template attribute", "host")
       ELSE Skip("host")

HostGuard == Len(filteredVms) > 0 /\ config.Host # ""

\* Mutant: the host filter is handed the glob result, not the narrowed list.
HostStepOnGlobResult ==
    /\ pc = "host"
    /\ IF HostGuard
       THEN \E f \in 0..3 :
                Apply("host", stages[1].output,
                      filterByHost(config.Host, stages[1].output, f),
                      "failed to filter by host attribute", "tags")
       ELSE Skip("tags")

HostStep ==
    /\ pc = "host"
    /\ IF HostGuard
       THEN \E f \in 0..3 :
                Apply("host", filteredVms, filterByHost(config.Host, filteredVms, f),
                      "failed to filter by host attribute", "tags")
       ELSE Skip("tags")

TagsGuard == Len(filteredVms) > 0 /\ ~config.TagsNil

TagsStep ==
    /\ pc = "tags"
    /\ IF TagsGuard
       THEN \E f \in 0..NumCalls(filterByTags(config.Tags, filteredVms, 0)) :
                Apply("tags", filteredVms, filterByTags(config.Tags, filteredVms, f),
                      "failed to filter by tags", "count")
       ELSE Skip("count")

\* if len(filteredVms) == 0 {...}; if len(filteredVms) > 1 { if d.config.Latest ... else ... }
CountStep ==
    /\ pc = "count"
    /\ IF Len(filteredVms) = 0
       THEN /\ pc' = "done"
            /\ outcome' = ErrorOutcome(<<"no virtual machine matches the filters">>)
       ELSE IF Len(filteredVms) > 1
       THEN IF config.Latest
            THEN pc' = "latest" /\ UNCHANGED outcome
            ELSE /\ pc' = "done"
                 /\ outcome' = ErrorOutcome(<<"more than one virtual machine matched the filters">>)
       ELSE pc' = "output" /\ UNCHANGED outcome
    /\ UNCHANGED <<raws, first, config, inv, filteredVms, calls, stages>>

LatestStep ==
    /\ pc = "latest"
    /\ \E f \in 0..Len(filteredVms) :
            Apply("latest", filteredVms, filterByLatest(filteredVms, f),
                  "failed to find the latest virtual machine", "output")

\* output := DatasourceOutput{VmName: filteredVms[0].Name()}
OutputStep ==
    /\ pc = "output"
    /\ pc' = "done"
    /\ outcome' = IF filteredVms[1] = NilVM THEN PanicOutcome
                  ELSE [kind |-> "ok", value |-> VMName(filteredVms[1]), err |-> NoErr]
    /\ UNCHANGED <<raws, first, config, inv, filteredVms, calls, stages>>

Next ==
    \/ Configure
    \/ NewDriver
    \/ VirtualMachineList
    \/ NameRegexStep
    \/ TemplateStep
    \/ HostStep
    \/ TagsStep
    \/ CountStep
    \/ LatestStep
    \/ OutputStep

Spec == Init /\ [][Next]_vars

----------------------------------------------------------------------------
(* A second data source, configured with the name `*`, on the same inventory *)

\* A data source whose configuration differs from raws in the name only,
\* `*` in place of the unset name, is configured and executed.
Twin ==
    /\ pc = "done"
    /\ first = NoFirst
    /\ raws.cfg.Name = <<>>
    /\ first' = [how |-> "twin", outcome |-> outcome, calls |-> calls]
    /\ config' = [raws.cfg EXCEPT !.Name = Star]
    /\ pc' = "configure"
    /\ filteredVms' = <<>>
    /\ calls' = <<>>
    /\ stages' = <<>>
    /\ outcome' = NoOutcome
    /\ UNCHANGED <<raws, inv>>

NextTwice ==
    \/ Next
    \/ Twin

\* name unset or `*`, every filter, tagged templates of one host
InitTwin ==
    Start(Configs({VC}, {<<>>, Star}, {<<"a">>, <<"(">>}, {TRUE}, {"", "h1"},
                  {FALSE}, {<<>>, <<ReqOpsTeam>>}, BOOLEAN),
          Inventories(Machines({NameA, NameBA}, {TRUE}, {"h1"}, {1, 2}, {<<OpsTeam>>})))

\* The configurations and inventories of the two data sources
InitTwice ==
    \/ InitTwin
    \/ InitConfigure

SpecTwice == InitTwice /\ [][NextTwice]_vars

----------------------------------------------------------------------------
(* The data source of package virtual_machine, whose newDriver creates the  *)
(* REST client only for a configuration with tags.  Its Config holds Node   *)
(* and VmTags where the later one holds Host and Tags; the model keeps them *)
(* in the fields Host, TagsNil and Tags.                                    *)

\* The calls of newDriver, in order, for a configuration; call number f fails.
LazyDriverCalls(vmTagsNil, f) ==
    LET ops == <<"NewClient">>
               \o (IF vmTagsNil THEN <<>> ELSE <<"RestLogin">>)
               \o <<"DatacenterOrDefault">>
        n == IF f = 0 THEN Len(ops) ELSE f
    IN  [k \in 1..n |-> Call(ops[k], NilVM, "", k # f)]

\* errors.Wrap(err, ...) of newDriver for the call that failed
LazyDriverMessage(op) ==
    CASE op = "NewClient" -> "failed to create govmomi client"
      [] op = "RestLogin" -> "failed to login to REST API endpoint"
      [] OTHER -> "failed to find datacenter"

\* driver, err := newDriver(d.config)
\* url.Parse of the endpoint comes first: when it fails, "failed to parse
\* URL" is returned and no call is made.
newDriver ==
    /\ pc = "driver"
    /\ LET parse == UrlParse(Endpoint(config.VCenterServer))
       IN  IF parse # ""
           THEN /\ pc' = "done"
                /\ outcome' = ErrorOutcome(<<"failed to initialize driver",
                                             "failed to parse URL", parse>>)
                /\ UNCHANGED calls
           ELSE \E f \in 0..Len(LazyDriverCalls(config.TagsNil, 0)) :
                LET cs == LazyDriverCalls(config.TagsNil, f)
                IN  /\ calls' = calls \o cs
                    /\ IF f = 0
                       THEN pc' = "glob" /\ UNCHANGED outcome
                       ELSE /\ pc' = "done"
                            /\ outcome' = ErrorOutcome(<<"failed to initialize driver",
                                                         LazyDriverMessage(cs[f].op),
                                                         "remote">>)
    /\ UNCHANGED <<raws, first, config, inv, filteredVms, stages>>

\* driver.restClient is not nil
RestClientReady == \E i \in DOMAIN calls : calls[i].op = "RestLogin" /\ calls[i].ok

\* The messages of the filters of package virtual_machine
LazyMessage(msg) ==
    CASE msg = "error checking if virtual machine is a template" ->
             "error checking if VM is a tempalte"
      [] msg = "failed to get properties for the virtual machine" ->
             "failed to get properties for VM"
      [] msg = "failed return tags for the virtual machine" ->
             "failed to get attached tags for vm"
      [] msg = "failed to return tag category for tag" ->
             "failed to get attached category for tag"
      [] msg = "error retrieving config properties for the virtual machine" ->
             "error retrieving config properties of VM"
      [] OTHER -> msg

LazyResult(r) ==
    IF r.err = NoErr THEN r ELSE [r EXCEPT !.err = <<LazyMessage(r.err[1])>> \o Tail(r.err)]

LazyConfigure == Configure

LazyVirtualMachineList == VirtualMachineList

LazyNameRegexStep == NameRegexStep

LazyTemplateStep ==
    /\ pc = "template"
    /\ IF TemplateGuard
       THEN \E f \in 0..NumCalls(filterByTemplate(filteredVms, 0)) :
                Apply("template", filteredVms, LazyResult(filterByTemplate(filteredVms, f)),
                      "failed to filter by template attribute", "host")
       ELSE Skip("host")

\* if len(filteredVms) > 0 && d.config.Node != "" { filterByNode(...) }
LazyNodeStep ==
    /\ pc = "host"
    /\ IF HostGuard
       THEN \E f \in 0..3 :
                Apply("host", filteredVms, LazyResult(filterByHost(config.Host, filteredVms, f)),
                      "failed to filter by node attribute", "tags")
       ELSE Skip("tags")

\* if len(filteredVms) > 0 && d.config.VmTags != nil { filterByTags(...) };
\* the tag manager of a nil REST client dereferences it on its first call.
LazyTagsStep ==
    /\ pc = "tags"
    /\ IF TagsGuard
       THEN IF RestClientReady
            THEN \E f \in 0..NumCalls(filterByTags(config.Tags, filteredVms, 0)) :
                     Apply("tags", filteredVms,
                           LazyResult(filterByTags(config.Tags, filteredVms, f)),
                           "failed to filter by tags", "count")
            ELSE Apply("tags", filteredVms, Panicked(<<>>), "failed to filter by tags", "count")
       ELSE Skip("count")

LazyCountStep ==
    /\ pc = "count"
    /\ IF Len(filteredVms) = 0
       THEN /\ pc' = "done"
            /\ outcome' = ErrorOutcome(<<"not a single VM matches the configured filters">>)
       ELSE IF Len(filteredVms) > 1
       THEN IF config.Latest
            THEN pc' = "latest" /\ UNCHANGED outcome
            ELSE /\ pc' = "done"
                 /\ outcome' = ErrorOutcome(<<"multiple VMs match the configured filters">>)
       ELSE pc' = "output" /\ UNCHANGED outcome
    /\ UNCHANGED <<raws, first, config, inv, filteredVms, calls, stages>>

LazyLatestStep ==
    /\ pc = "latest"
    /\ \E f \in 0..Len(filteredVms) :
            Apply("latest", filteredVms, LazyResult(filterByLatest(filteredVms, f)),
                  "failed to find the latest VM", "output")

LazyOutputStep == OutputStep

\* name_regex, template, node, vm_tags (nil, empty or one block) and latest
InitLazy ==
    \/ Start(Configs({VC}, {Star}, {<<>>, <<"a">>}, BOOLEAN, {"", "h1"}, BOOLEAN,
                      {<<>>, <<ReqOpsTeam>>}, BOOLEAN),
              Inventories(Machines({NameA, NameBA}, BOOLEAN, {"h1"}, {1},
                                   {<<>>, <<OpsTeam>>})))
    \/ InitServers

NextLazy ==
    \/ LazyConfigure
    \/ newDriver
    \/ LazyVirtualMachineList
    \/ LazyNameRegexStep
    \/ LazyTemplateStep
    \/ LazyNodeStep
    \/ LazyTagsStep
    \/ LazyCountStep
    \/ LazyLatestStep
    \/ LazyOutputStep

SpecLazy == InitLazy /\ [][NextLazy]_vars

----------------------------------------------------------------------------
(* Vocabulary of the properties *)

Done == pc = "done"

StageOrder == <<"glob", "regex", "template", "host", "tags", "latest">>

StageNames == [i \in DOMAIN stages |-> stages[i].stage]

Ran(stage) == \E i \in DOMAIN stages : stages[i].stage = stage

\* The record of a stage that ran
RecordOf(stage) == stages[CHOOSE i \in DOMAIN stages : stages[i].stage = stage]

NoCallFailed == \A i \in DOMAIN calls : calls[i].ok

CallsOf(op) == SelectSeq(calls, LAMBDA c : c.op = op)

\* The stages before the latest-selection stage
Narrowing == SelectSeq(stages, LAMBDA s : s.stage # "latest")

\* Execute got as far as the test of len(filteredVms)
CountReached ==
    /\ pc \in {"count", "latest", "output", "done"}
    /\ Narrowing # <<>>
    /\ Narrowing[Len(Narrowing)].output # NoList

\* The candidates that survive the regex, template, host and tag stages
Survivors == Narrowing[Len(Narrowing)].output

\* What the filters are meant to select, stated on the inventory
NameMatches(vm) ==
    RegexpCompile(config.NameRegex).ok
    /\ MatchString(RegexpCompile(config.NameRegex), inv[vm].name)

OnHost(vm) == inv[vm].host = config.Host

NameOnHost(vm) == \E m \in DOMAIN inv : inv[m].host = config.Host /\ inv[m].name = inv[vm].name

HasTag(vm, req) ==
    \E k \in DOMAIN inv[vm].tags :
        /\ inv[vm].tags[k].Name = req.Name
        /\ CategoryName(inv[vm].tags[k].CategoryID) = req.Category

HasAllTags(vm) == \A j \in DOMAIN config.Tags : HasTag(vm, config.Tags[j])

----------------------------------------------------------------------------
(* C1 *)

\* C1: once the configured regex, template, host and tag stages have run and no
\* remote call failed, the outcome of Execute is determined by the number of
\* survivors: none gives an error, one gives success with its name, several
\* without Latest give an error, several with Latest give success with one of
\* the survivors, the one the latest stage returned.
C1_OutcomeBySurvivors ==
    (Done /\ CountReached /\ NoCallFailed) =>
        LET n == Len(Survivors)
        IN  /\ n = 0 => outcome.kind = "error"
            /\ n = 1 => outcome.kind = "ok" /\ outcome.value = VMName(Survivors[1])
            /\ (n > 1 /\ ~config.Latest) => outcome.kind = "error"
            /\ (n > 1 /\ config.Latest) =>
                  /\ outcome.kind = "ok"
                  /\ Ran("latest")
                  /\ Len(RecordOf("latest").output) = 1
                  /\ RecordOf("latest").output[1] \in Range(Survivors)
                  /\ outcome.value = VMName(RecordOf("latest").output[1])

----------------------------------------------------------------------------
(* C2 *)

GlobResult == stages[1].output

\* C2 as stated: whenever Execute succeeds, vm_name is the name of a machine of
\* the glob result that matches NameRegex if set, is a template if Template is
\* set, is placed on the configured host if Host is set, and has every
\* configured tag attached.
C2_ResultSatisfiesFilters ==
    (Done /\ outcome.kind = "ok") =>
        \E vm \in Range(GlobResult) :
            /\ outcome.value = inv[vm].name
            /\ config.NameRegex # <<>> => NameMatches(vm)
            /\ config.Template => inv[vm].isTemplate
            /\ config.Host # "" => OnHost(vm)
            /\ HasAllTags(vm)

\* C2 amended: whenever Execute succeeds, vm_name is the name of a machine of
\* the glob result that matches NameRegex if set, is a template if Template is
\* set, bears the name of some machine placed on the configured host if Host is
\* set, and has every configured tag attached.
C2_ResultSatisfiesFiltersByName ==
    (Done /\ outcome.kind = "ok") =>
        \E vm \in Range(GlobResult) :
            /\ outcome.value = inv[vm].name
            /\ config.NameRegex # <<>> => NameMatches(vm)
            /\ config.Template => inv[vm].isTemplate
            /\ config.Host # "" => NameOnHost(vm)
            /\ HasAllTags(vm)

\* Execute succeeded with the template, host and tag filters all configured,
\* on an inventory where some machine fails a filter.
C2_Witness ==
    /\ Done
    /\ outcome.kind = "ok"
    /\ config.Template /\ config.Host # "" /\ config.Tags # <<>>
    /\ Ran("template") /\ Ran("host") /\ Ran("tags")
    /\ Len(GlobResult) > Len(Survivors)

----------------------------------------------------------------------------
(* C3 *)

\* C3: when the tag stage returns a list, a candidate of its input is in the
\* output if and only if every required tag {name, category} is matched by an
\* attached tag with that name whose category ID resolves to that category.
C3_TagsAllRequired ==
    (Ran("tags") /\ RecordOf("tags").output # NoList) =>
        \A vm \in Range(RecordOf("tags").input) :
            vm \in Range(RecordOf("tags").output) <=> HasAllTags(vm)

\* The tag stage kept a candidate carrying two attached tags of one name in
\* different categories and dropped a candidate that has one of two required
\* tags only.
C3_Witness ==
    /\ Ran("tags")
    /\ RecordOf("tags").output # NoList
    /\ Len(config.Tags) = 2
    /\ \E vm \in Range(RecordOf("tags").output) :
          \E k, l \in DOMAIN inv[vm].tags :
              /\ inv[vm].tags[k].Name = inv[vm].tags[l].Name
              /\ inv[vm].tags[k].CategoryID # inv[vm].tags[l].CategoryID
    /\ \E vm \in Range(RecordOf("tags").input) :
          /\ vm \notin Range(RecordOf("tags").output)
          /\ \E j \in DOMAIN config.Tags : HasTag(vm, config.Tags[j])

----------------------------------------------------------------------------
(* C4, C5 *)

LatestFetchesOk == \A i \in DOMAIN calls : calls[i].op = "Properties" => calls[i].ok

\* C4: when the latest stage runs (several survivors, Latest set) and no
\* property fetch fails, it returns exactly one element, a candidate of its
\* input whose creation time is not before that of any other input candidate.
C4_LatestIsMaximum ==
    (Ran("latest") /\ LatestFetchesOk) =>
        LET r == RecordOf("latest")
        IN  /\ r.output # NoList
            /\ Len(r.output) = 1
            /\ r.output[1] \in Range(r.input)
            /\ \A vm \in Range(r.input) :
                  inv[r.output[1]].createDate >= inv[vm].createDate

AllZeroOrAbsent(vmList) ==
    \A vm \in Range(vmList) : inv[vm].createDate \in {ZeroTime, Absent}

\* C5: when every candidate passed to the latest stage has a zero or absent
\* creation time and no fetch fails, the stage returns one of those candidates
\* and Execute returns that candidate's name.
C5_ZeroTimeStillWins ==
    (Done /\ Ran("latest") /\ LatestFetchesOk /\ AllZeroOrAbsent(RecordOf("latest").input)) =>
        LET r == RecordOf("latest")
        IN  /\ r.output # NoList
            /\ Len(r.output) = 1
            /\ r.output[1] \in Range(r.input)
            /\ outcome.kind = "ok"
            /\ outcome.value = VMName(r.output[1])

----------------------------------------------------------------------------
(* C6, C7 *)

\* C6: every filter stage that returns a list returns at most as many
\* candidates as it received, the host stage included.
C6_MonotonicNarrowing ==
    \A i \in DOMAIN stages :
        (stages[i].stage # "glob" /\ stages[i].output # NoList) =>
            Len(stages[i].output) <= Len(stages[i].input)

\* C7: when NameRegex does not compile, the regex stage returns an empty list
\* without failing and Execute ends with the no-match error.
C7_BadRegexMatchesNothing ==
    (Done /\ Ran("regex") /\ ~RegexpCompile(config.NameRegex).ok) =>
        /\ RecordOf("regex").output = <<>>
        /\ outcome = ErrorOutcome(<<"no virtual machine matches the filters">>)

----------------------------------------------------------------------------
(* C8 *)

\* C8: a stage whose configuration field is unset or default (empty NameRegex,
\* Template false, empty Host, no required tag, be the tag list nil or empty)
\* does not run and issues none of its remote calls, and no stage runs on an
\* empty candidate list.
C8_UnconfiguredStagesSkipped ==
    /\ config.NameRegex = <<>> => ~Ran("regex")
    /\ ~config.Template => (~Ran("template") /\ CallsOf("IsTemplate") = <<>>)
    /\ config.Host = "" =>
          /\ ~Ran("host")
          /\ CallsOf("HostSystem") = <<>>
          /\ CallsOf("RetrieveOne") = <<>>
          /\ CallsOf("Retrieve") = <<>>
    /\ config.Tags = <<>> =>
          /\ ~Ran("tags")
          /\ CallsOf("GetAttachedTags") = <<>>
          /\ CallsOf("GetCategory") = <<>>
    /\ \A i \in DOMAIN stages : stages[i].stage # "glob" => stages[i].input # <<>>

----------------------------------------------------------------------------
(* C9 *)

\* C9: the stages that execute do so in the order glob, regex, template, host,
\* tags, latest, each at most once, and each receives exactly the list the
\* previous executed stage returned.
C9_FixedOrder ==
    /\ IsSubseq(StageNames, StageOrder)
    /\ \A i \in DOMAIN stages : i > 1 => stages[i].input = stages[i - 1].output

\* All six stages ran in one run that succeeded, the latest stage having
\* narrowed the list it was handed.
C9_Witness ==
    /\ Done
    /\ StageNames = StageOrder
    /\ Len(stages[6].input) > 1
    /\ Len(stages[6].output) = 1
    /\ outcome.kind = "ok"

----------------------------------------------------------------------------
(* C10 *)

\* The stage inside which call number i was issued returned no list.
EnclosingStageFailed(i) ==
    calls[i].op = "NewDriver" \/ (stages # <<>> /\ stages[Len(stages)].output = NoList)

\* C10: a remote call that returns an error is the last remote call of the
\* run (no retry, no further call), the stage that issued it returns no list,
\* and Execute returns a null value and an error.
C10_FailFast ==
    \A i \in DOMAIN calls :
        ~calls[i].ok =>
            /\ i = Len(calls)
            /\ EnclosingStageFailed(i)
            /\ Done
            /\ outcome.kind = "error"
            /\ outcome.value = <<>>
            /\ outcome.err # NoErr

\* A category resolution failed for the second candidate of the tag stage,
\* after the first candidate had been kept.
C10_Witness ==
    /\ Done
    /\ Ran("tags")
    /\ Len(RecordOf("tags").input) > 1
    /\ calls # <<>>
    /\ calls[Len(calls)].op = "GetCategory"
    /\ ~calls[Len(calls)].ok
    /\ Len(CallsOf("GetAttachedTags")) = 2
    /\ Len(CallsOf("GetCategory")) > 1

----------------------------------------------------------------------------
(* C11 *)

\* The remote calls Execute issues after the glob lookup
DownstreamOps ==
    {"IsTemplate", "HostSystem", "RetrieveOne", "Retrieve", "GetAttachedTags",
     "GetCategory", "Properties"}

\* C11: the glob lookup never hands on an empty list; when it matches nothing
\* the finder returns an error, Execute fails with the message of the failed
\* lookup, no later stage runs and no IsTemplate, host, tag, category or
\* creation-time call is issued.
C11_EmptyGlobFails ==
    Ran("glob") =>
        /\ GlobResult # <<>>
        /\ GlobList(config.Name) = <<>> => GlobResult = NoList
        /\ GlobResult = NoList =>
              /\ Done
              /\ outcome.kind = "error"
              /\ outcome.value = <<>>
              /\ Len(outcome.err) > 1
              /\ outcome.err[1] = "failed to retrieve virtual machines list"
              /\ Len(stages) = 1
              /\ \A i \in DOMAIN calls : calls[i].op \notin DownstreamOps

\* A glob that no machine of a non-empty inventory matches, with a regex,
\* the template filter and latest selection configured.
C11_Witness ==
    /\ Done
    /\ Ran("glob")
    /\ GlobList(config.Name) = <<>>
    /\ calls[Len(calls)].op = "VirtualMachineList"
    /\ outcome.err = <<"failed to retrieve virtual machines list", "not found">>
    /\ config.NameRegex # <<>>
    /\ config.Template
    /\ config.Latest

----------------------------------------------------------------------------
(* C12 *)

\* C12: when the host stage runs (a host is configured and candidates are
\* left) and the host does not exist, Execute fails with an error, the tag
\* stage and the latest stage are not entered, and no attached-tags, category
\* or creation-time call is issued.
C12_UnknownHostAborts ==
    (Ran("host") /\ config.Host \notin Hosts) =>
        /\ Done
        /\ outcome.kind = "error"
        /\ outcome.value = <<>>
        /\ outcome.err[1] = "failed to filter by host attribute"
        /\ RecordOf("host").output = NoList
        /\ ~Ran("tags")
        /\ ~Ran("latest")
        /\ \A i \in DOMAIN calls :
              calls[i].op \notin {"GetAttachedTags", "GetCategory", "Properties"}

\* An unknown host with several candidates left, tags configured and Latest
\* set: the lookup of the host is the last call of the run.
C12_Witness ==
    /\ Done
    /\ Ran("host")
    /\ config.Host \notin Hosts
    /\ Len(RecordOf("host").input) > 1
    /\ config.Tags # <<>>
    /\ config.Latest
    /\ outcome.err = <<"failed to filter by host attribute",
                       "error finding defined host system", "not found">>

----------------------------------------------------------------------------
(* C13 *)

\* The run ended on a failure of the remote side that the inventory does not
\* explain (a dropped connection), as opposed to an answer of the inventory.
Injected(o) == o.kind = "error" /\ o.err[Len(o.err)] = "remote"

\* C13: Configure replaces an unset name by `*`, and a configuration with the
\* name unset ends in the same outcome (same name, same error) as the same
\* configuration with the name `*`, on every inventory and for every setting
\* of the other filters, as long as the remote side answers both runs.
C13_UnsetNameIsStar ==
    /\ (pc # "configure" /\ raws.decodes /\ raws.cfg.Name = <<>>) =>
            config = [raws.cfg EXCEPT !.Name = Star]
    /\ (Done /\ first.how = "twin" /\ ~Injected(first.outcome) /\ ~Injected(outcome)) =>
            outcome = first.outcome

\* Both configurations selected a machine, out of a glob result of several.
C13_Witness ==
    /\ Done
    /\ first.how = "twin"
    /\ raws.cfg.Name = <<>>
    /\ first.outcome.kind = "ok"
    /\ outcome = first.outcome
    /\ Len(GlobResult) > 1

----------------------------------------------------------------------------
(* C14 *)

ConnectionFields == {"VCenterServer", "Username", "Password"}

MissingFields == {fld \in ConnectionFields : raws.cfg[fld] = <<>>}

InvalidTagBlocks ==
    {j \in DOMAIN raws.cfg.Tags :
        raws.cfg.Tags[j].Name = "" \/ raws.cfg.Tags[j].Category = ""}

ConfigureFailed == pc = "done" /\ outcome.kind = "config_error"

\* C14 as stated: Configure returns an error if and only if a connection
\* field is empty or a tag block lacks its name or its category; the error has
\* one entry for each missing field and one for each invalid tag block; no
\* inventory call precedes it.
C14_ConfigureValidates ==
    pc # "configure" =>
        /\ ConfigureFailed <=> (MissingFields # {} \/ InvalidTagBlocks # {})
        /\ ConfigureFailed =>
              /\ Len(outcome.err) = Cardinality(MissingFields) + Cardinality(InvalidTagBlocks)
              /\ calls = <<>>
              /\ stages = <<>>

\* C14 amended: Configure also returns an error, the decoder's, when the
\* configuration does not decode; for a configuration that decodes the claim
\* holds as stated.
C14_ConfigureValidatesDecoded ==
    pc # "configure" =>
        /\ ConfigureFailed <=>
              (~raws.decodes \/ MissingFields # {} \/ InvalidTagBlocks # {})
        /\ (ConfigureFailed /\ raws.decodes) =>
              Len(outcome.err) = Cardinality(MissingFields) + Cardinality(InvalidTagBlocks)
        /\ ConfigureFailed =>
              /\ calls = <<>>
              /\ stages = <<>>

\* Three missing connection fields and two invalid tag blocks, five entries.
C14_Witness ==
    /\ ConfigureFailed
    /\ raws.decodes
    /\ Cardinality(MissingFields) = 3
    /\ Cardinality(InvalidTagBlocks) = 2
    /\ Len(outcome.err) = 5

----------------------------------------------------------------------------
(* C15 *)

\* C15: every run of Execute ends either with the name of exactly one machine
\* and no error, or with no value and an error; never both, never neither.
C15_TwoOutcomes ==
    (Done /\ outcome.kind # "config_error") =>
        \/ /\ outcome.kind = "ok"
           /\ outcome.err = NoErr
           /\ \E vm \in DOMAIN inv : outcome.value = inv[vm].name
        \/ /\ outcome.kind = "error"
           /\ outcome.value = <<>>
           /\ outcome.err # NoErr

----------------------------------------------------------------------------
(* C16 *)

\* C16 compares two runs of Execute with each other.  Execute reads d.config
\* and the inventory and keeps nothing between calls (data.go:131-193), so
\* in this model the second run is the first one evaluated again; no formula
\* over the states of the model says more than that.

----------------------------------------------------------------------------
(* C17 *)

NoMatchMessage == <<"no virtual machine matches the filters">>

LookupMessage == "failed to retrieve virtual machines list"

AmbiguousMessage == <<"more than one virtual machine matched the filters">>

\* C17: the three fatal outcomes carry three different messages and each
\* message is produced in its own situation only: the no-match message when
\* no candidate is left after the stages, the lookup message when the glob
\* lookup failed, the ambiguity message when more than one machine is left
\* and Latest is not set.
C17_MessagesBySituation ==
    Done =>
        /\ outcome.err = NoMatchMessage <=> (CountReached /\ Len(Survivors) = 0)
        /\ (outcome.err # NoErr /\ outcome.err[1] = LookupMessage) <=>
               (Ran("glob") /\ GlobResult = NoList)
        /\ outcome.err = AmbiguousMessage <=>
               (CountReached /\ Cardinality(Range(Survivors)) > 1 /\ ~config.Latest)

----------------------------------------------------------------------------
(* C18 *)

\* The greatest creation date among the candidates of a list
MaxDate(vmList) ==
    CHOOSE d \in {inv[vmList[i]].createDate : i \in DOMAIN vmList} :
        \A i \in DOMAIN vmList : inv[vmList[i]].createDate <= d

\* The first position of the list that bears the greatest creation date
FirstOfMaxDate(vmList) ==
    CHOOSE i \in DOMAIN vmList :
        /\ inv[vmList[i]].createDate = MaxDate(vmList)
        /\ \A k \in 1..(i - 1) : inv[vmList[k]].createDate # MaxDate(vmList)

\* C18: when every creation date is fetched and the greatest one is not the
\* zero time, the latest stage returns the first candidate, in the order of
\* its input, that bears the greatest date; among candidates that share it
\* the earlier one wins.
C18_FirstOfTiesWins ==
    (Ran("latest") /\ LatestFetchesOk
       /\ (\A i \in DOMAIN RecordOf("latest").input :
              inv[RecordOf("latest").input[i]].createDate # Absent)
       /\ MaxDate(RecordOf("latest").input) > ZeroTime) =>
        LET input == RecordOf("latest").input
        IN  RecordOf("latest").output = <<input[FirstOfMaxDate(input)]>>

\* Two different machines share the greatest date; the first was returned.
C18_Witness ==
    /\ Done
    /\ Ran("latest")
    /\ outcome.kind = "ok"
    /\ LET input == RecordOf("latest").input
       IN  /\ Len(input) = 2
           /\ input[1] # input[2]
           /\ inv[input[1]].createDate = inv[input[2]].createDate
           /\ inv[input[1]].createDate > ZeroTime
           /\ RecordOf("latest").output = <<input[1]>>

----------------------------------------------------------------------------
(* C19 *)

\* C19: the host stage resolves the host once and fetches the names of its
\* machines once, whatever the number of candidates, and returns exactly the
\* input candidates whose name is the name of some machine of the host.
C19_HostIntersection ==
    Ran("host") =>
        /\ Len(CallsOf("HostSystem")) = 1
        /\ Len(CallsOf("RetrieveOne")) <= 1
        /\ Len(CallsOf("Retrieve")) <= 1
        /\ RecordOf("host").output # NoList =>
              /\ Len(CallsOf("RetrieveOne")) = 1
              /\ Len(CallsOf("Retrieve")) = 1
              /\ RecordOf("host").output =
                    SelectSeq(RecordOf("host").input, NameOnHost)

----------------------------------------------------------------------------
(* C20 *)

\* C20: the template stage fetches IsTemplate once per candidate in input
\* order; when no fetch fails it returns exactly the input candidates that are
\* templates; when a fetch fails it returns an error and no list, and the
\* candidates after the failed one are not fetched.
C20_TemplateFetches ==
    Ran("template") =>
        LET input == RecordOf("template").input
            fetches == CallsOf("IsTemplate")
        IN  /\ Len(fetches) <= Len(input)
            /\ \A k \in DOMAIN fetches : fetches[k].vm = input[k]
            /\ (\A k \in DOMAIN fetches : fetches[k].ok) =>
                  /\ Len(fetches) = Len(input)
                  /\ RecordOf("template").output =
                        SelectSeq(input, LAMBDA vm : inv[vm].isTemplate)
            /\ \A k \in DOMAIN fetches :
                  ~fetches[k].ok =>
                      /\ k = Len(fetches)
                      /\ RecordOf("template").output = NoList
                      /\ Done
                      /\ outcome.kind = "error"
                      /\ outcome.err[1] = "failed to filter by template attribute"

\* The fetch failed for the first of two candidates; the second, a template,
\* was not fetched.
C20_Witness ==
    /\ Done
    /\ Ran("template")
    /\ Len(RecordOf("template").input) = 2
    /\ Len(CallsOf("IsTemplate")) = 1
    /\ ~CallsOf("IsTemplate")[1].ok
    /\ inv[RecordOf("template").input[2]].isTemplate

----------------------------------------------------------------------------
(* C21 *)

IsPrefix(s, t) == Len(s) <= Len(t) /\ s = SubSeq(t, 1, Len(s))

\* The calls of the tag stage, in the order they were issued
TagCalls == SelectSeq(calls, LAMBDA c : c.op \in {"GetAttachedTags", "GetCategory"})

\* The positions in tc, the calls of the tag stage, of the fetches of attached
\* tags, one per candidate reached
AttachedPositions(tc) ==
    SelectSeq([p \in DOMAIN tc |-> p], LAMBDA p : tc[p].op = "GetAttachedTags")

\* The category ids resolved for the i-th candidate, in the order of the calls
ResolvedFor(tc, pos, i) ==
    LET from == pos[i] + 1
        to == IF i < Len(pos) THEN pos[i + 1] - 1 ELSE Len(tc)
    IN  [k \in 1..(to - from + 1) |-> tc[from + k - 1].ref]

\* What the claim allows for machine vm from required tag j on: for a
\* required tag, the category ids of the attached tags of its name, up to the
\* first one whose category is the required one; the next required tag only
\* if there was such a one.
RECURSIVE ExpectedResolutions(_, _)
ExpectedResolutions(vm, j) ==
    IF j > Len(config.Tags) THEN <<>>
    ELSE LET req == config.Tags[j]
             att == inv[vm].tags
             hits == {k \in DOMAIN att :
                         /\ att[k].Name = req.Name
                         /\ CategoryName(att[k].CategoryID) = req.Category}
             last == IF hits = {} THEN Len(att)
                     ELSE CHOOSE k \in hits : \A h \in hits : k <= h
             scanned == SelectSeq(SubSeq(att, 1, last), LAMBDA t : t.Name = req.Name)
         IN  [k \in DOMAIN scanned |-> scanned[k].CategoryID]
             \o (IF hits = {} THEN <<>> ELSE ExpectedResolutions(vm, j + 1))

\* C21: in the tag stage the attached tags are fetched once per candidate in
\* input order; for a candidate the required tags are evaluated in
\* configuration order, a category is resolved only for an attached tag whose
\* name is the required tag's name, and after the first required tag without
\* a match no further category is resolved for the candidate, which is
\* excluded.
C21_TagsFailFast ==
    Ran("tags") =>
        LET input == RecordOf("tags").input
            output == RecordOf("tags").output
            tc == TagCalls
            pos == AttachedPositions(tc)
        IN  /\ Len(pos) <= Len(input)
            /\ \A i \in DOMAIN pos :
                  /\ tc[pos[i]].vm = input[i]
                  /\ IsPrefix(ResolvedFor(tc, pos, i), ExpectedResolutions(input[i], 1))
            /\ output # NoList =>
                  /\ Len(pos) = Len(input)
                  /\ \A i \in DOMAIN pos :
                        ResolvedFor(tc, pos, i) = ExpectedResolutions(input[i], 1)
                  /\ output = SelectSeq(input, HasAllTags)

\* The first required tag met an attached tag of its name in another
\* category: one category was resolved, the second required tag, which the
\* machine bears, was not evaluated, and the machine was excluded.
C21_Witness ==
    /\ Ran("tags")
    /\ RecordOf("tags").output # NoList
    /\ Len(config.Tags) = 2
    /\ \E i \in DOMAIN RecordOf("tags").input :
          LET vm == RecordOf("tags").input[i]
          IN  /\ ~HasTag(vm, config.Tags[1])
              /\ HasTag(vm, config.Tags[2])
              /\ Len(ResolvedFor(TagCalls, AttachedPositions(TagCalls), i)) = 1
              /\ vm \notin Range(RecordOf("tags").output)

----------------------------------------------------------------------------
(* C22 *)

\* The machines among the survivors
SurvivingMachines == Range(Survivors)

\* C22: the latest stage is entered only when more than one candidate
\* survives and Latest is set; when exactly one candidate survives, Execute
\* returns its name and fetches no creation date, whatever Latest and
\* whatever the creation date of the candidate.
C22_LatestOnlyForSeveral ==
    /\ Ran("latest") => (Cardinality(SurvivingMachines) > 1 /\ config.Latest)
    /\ (Done /\ CountReached /\ Cardinality(SurvivingMachines) = 1) =>
          /\ outcome.kind = "ok"
          /\ \A vm \in SurvivingMachines : outcome.value = VMName(vm)
          /\ CallsOf("Properties") = <<>>

----------------------------------------------------------------------------
(* C23 *)

\* Machine vm passes every configured filter, with the host filter read as
\* the code applies it, by name.
Satisfies(vm) ==
    /\ GlobMatch(config.Name, VMName(vm))
    /\ config.NameRegex # <<>> => NameMatches(vm)
    /\ config.Template => inv[vm].isTemplate
    /\ config.Host # "" => NameOnHost(vm)
    /\ HasAllTags(vm)

Satisfying == {vm \in DOMAIN inv : Satisfies(vm)}

\* C23: if exactly one machine of the inventory satisfies all configured
\* filters and no remote call fails, Execute succeeds and returns the name of
\* that machine, with Latest set or not.
C23_UniqueMatchReturned ==
    (Done /\ outcome.kind # "config_error" /\ NoCallFailed /\ Cardinality(Satisfying) = 1) =>
        /\ outcome.kind = "ok"
        /\ \A vm \in Satisfying : outcome.value = VMName(vm)

----------------------------------------------------------------------------
(* C25 *)

\* C25: the regex, template and tag stages each return a subsequence of
\* their input (every output candidate is an input candidate, none more often
\* than in the input, in the input order), and when no host is configured the
\* list that reaches the test of its length is a subsequence of the glob
\* result.
C25_StagesReturnSubsequences ==
    /\ \A i \in DOMAIN stages :
          (stages[i].stage \in {"regex", "template", "tags"} /\ stages[i].output # NoList) =>
              IsSubseq(stages[i].output, stages[i].input)
    /\ (CountReached /\ config.Host = "") => IsSubseq(Survivors, GlobResult)

\* Regex, template and tag stages ran without a host filter; of two machines
\* of the glob result only the second reached the test of the length.
C25_Witness ==
    /\ CountReached
    /\ config.Host = ""
    /\ Ran("regex")
    /\ Ran("template")
    /\ Ran("tags")
    /\ GlobResult = <<1, 2>>
    /\ Len(RecordOf("tags").input) = 2
    /\ Survivors = <<2>>

----------------------------------------------------------------------------
(* C24 *)

\* newDriver returned a driver
DriverBuilt ==
    \E i \in DOMAIN calls : calls[i].op = "DatacenterOrDefault" /\ calls[i].ok

\* C24: the driver that newDriver returns has a logged-in REST client exactly
\* when the tag list of the configuration is not nil; the tag stage is entered
\* only when the list is not nil, hence never with a REST client that was not
\* created; and no REST login is attempted when no tag is configured.
C24_RestClientOnlyForTags ==
    /\ DriverBuilt => (RestClientReady <=> ~config.TagsNil)
    /\ Ran("tags") => (~config.TagsNil /\ RestClientReady)
    /\ (Ran("tags") /\ RecordOf("tags").output = NoList) => outcome.kind = "error"
    /\ CallsOf("RestLogin") # <<>> => Len(config.Tags) > 0

====
